---- MODULE Spec2Model ----
(***************************************************************************)
(* Model of the search pagination and the resumable fetch pipeline of      *)
(* LeakQuest (src/scraper.py): search_cables, _request_with_retry,         *)
(* fetch_cable, load_checkpoint, save_checkpoint and fetch_all_cables,     *)
(* and of the pure functions _js_obj_to_json, _normalize_date and          *)
(* _extract_page_parameters and _parse_result_rows, and of the session     *)
(* loop of src/leakquest.py (run_session, main).                           *)
(***************************************************************************)
EXTENDS Integers, Sequences, FiniteSets, TLC

(* ---- bounds of the model ---- *)
MaxId == 2        \* cable ids are 1..MaxId
MaxList == 2      \* longest cable_list given to fetch_all_cables
MaxRuns == 2      \* fetch_all_cables invocations against one checkpoint path
MaxRows == 2      \* most result rows in one listing page
MaxPages == 1     \* most continuation responses of one search
MaxItems == 2     \* most pieces in one quoted value of an object literal
MaxChars == 4     \* longest text scanned one iteration at a time
MaxSearches == 2  \* searches of one session
MaxSessions == 2  \* sessions of one run of main

(* ---- program constants ---- *)
MAX_RETRIES == 3
QLIMIT == 500
BACKOFF_SECONDS == <<5, 10, 20>>

VARIABLES
    (* the checkpoint file and one fetch_all_cables generator *)
    file,        \* the checkpoint file: [exists, valid, data]
    fpc,         \* position of the generator
    cable_list,  \* argument of the current invocation
    checkpoint,  \* in-memory checkpoint dict; completed is checkpoint.completed
    i,           \* loop index (0-based, as enumerate gives it)
    attempt,     \* failed attempts of the _request_with_retry call under way
                 \* (MAX_RETRIES once it has raised, 0 once it has returned)
    cable_data,  \* record of the id being processed
    raised,      \* exception that left the function, "none" if none
    yielded,     \* tuples yielded by the current invocation, in order
    fetched,     \* ids for which fetch_cable was called in this invocation
    loaded,      \* completed mapping as load_checkpoint returned it
    rerun,       \* this invocation repeats a completed one with the same list
    prev_done,   \* the invocation before ran to completion (over cable_list)
    prev_clean,  \* ... and yielded no record with a fetch error
    prev_yielded, \* the tuples it yielded then, <<>> otherwise
    runs,        \* invocations started so far
    timeline,    \* detail fetches and rate-limit sleeps of this invocation, in order
    (* one search_cables call *)
    spc,         \* position of search_cables
    results,     \* accumulated result rows
    page1,       \* rows parsed from the first response
    first,       \* what the first response held of parameters and token
    token,       \* continuation token to send next
    reqs,        \* queries of the continuation requests sent, in order
    resps,       \* continuation payloads received, in order
    ret,         \* list returned by search_cables
    sraised,     \* exception that left search_cables, "none" if none
    keyword,     \* the keyword argument of the call, NoCall before it
    curl_calls,  \* _curl_fetch calls made so far
    (* one _request_with_retry call *)
    rpc,         \* position of _request_with_retry
    rurl,        \* url of the call
    rattempt,    \* loop variable `attempt`
    rtries,      \* outcome of each HTTP attempt made, in order
    rsleeps,     \* seconds slept between attempts, in order
    rout,        \* what the call gave: its response, or the exception raised
    (* one conversion of an object literal, as _extract_page_parameters does it *)
    jpc,         \* "input" before the conversion, "done" after
    js_obj,      \* the object literal, a sequence of characters
    js_orig,     \* the mapping the literal denotes: key -> string value
    json_str,    \* what _js_obj_to_json returned
    page_params, \* what json.loads made of json_str: [ok, obj]
    (* one _normalize_date call *)
    dpc,         \* "input" before the call, "done" after
    raw_date,    \* the argument, a sequence of tokens
    norm_date,   \* the result, a sequence of tokens
    (* one _extract_page_parameters call *)
    xpc,         \* "input" before the call, "done" after
    page_html,   \* the argument: what the page holds of the two patterns
    extracted,   \* what the call gave: the pair returned, or the ValueError
    (* one _js_obj_to_json call, one loop iteration at a time *)
    scan_pc,     \* "input" before the call, "scan" in the loop, "done" after
    scan_s,      \* the argument `s`, a sequence of characters
    scan_i,      \* the loop variable `i` (counted from 0)
    scan_result, \* `result`, joined
    scan_regions, \* what each iteration took: [kind, from, to, out]
    scan_json,   \* the value returned
    (* one _parse_result_rows call *)
    parse_pc,    \* "input" before the call, "done" after
    parse_html,  \* the argument: the table rows of the document, in order
    parse_results, \* the list returned
    (* main and run_session *)
    session_pc,  \* position in main / run_session
    sessions,    \* run_session calls made by main
    search_num,  \* run_session's counter of searches
    all_cables,  \* run_session's list of collected records
    checkpoint_files \* the n for which checkpoint_n.json exists

fvars == <<file, fpc, cable_list, checkpoint, i, attempt, cable_data, raised,
           yielded, fetched, loaded, rerun, prev_done, prev_clean,
                   prev_yielded, runs, timeline>>
fvarsNoAttempt == <<file, fpc, cable_list, checkpoint, i, cable_data, raised,
                    yielded, fetched, loaded, rerun, prev_done, prev_clean,
                   prev_yielded, runs, timeline>>
svars == <<spc, results, page1, first, token, reqs, resps, ret, sraised,
           keyword, curl_calls>>
rvars == <<rpc, rurl, rattempt, rtries, rsleeps, rout>>
\* variables of the helper functions taken on their own
jvars == <<jpc, js_obj, js_orig, json_str, page_params>>
dvars == <<dpc, raw_date, norm_date>>
evars == <<xpc, page_html, extracted>>
kvars == <<scan_pc, scan_s, scan_i, scan_result, scan_regions, scan_json>>
pvars == <<parse_pc, parse_html, parse_results>>
mvars == <<session_pc, sessions, search_num, all_cables, checkpoint_files>>
hvars == <<rvars, jvars, dvars, evars, kvars, pvars, mvars>>
vars == <<file, fpc, cable_list, checkpoint, i, attempt, cable_data, raised,
          yielded, fetched, loaded, rerun, prev_done, prev_clean, prev_yielded,
          runs, timeline,
          spc, results, page1, first, token, reqs, resps, ret, sraised,
          keyword, curl_calls,
          rpc, rurl, rattempt, rtries, rsleeps, rout,
          jpc, js_obj, js_orig, json_str, page_params,
          dpc, raw_date, norm_date,
          xpc, page_html, extracted,
          scan_pc, scan_s, scan_i, scan_result, scan_regions, scan_json,
          parse_pc, parse_html, parse_results,
          session_pc, sessions, search_num, all_cables, checkpoint_files>>

Ids == 1..MaxId

(* ---- values ---- *)
EmptyMap == [k \in {} |-> 0]

Has(r, key) == key \in DOMAIN r

\* dict.get(key, "")
Get(r, key) == IF key \in DOMAIN r THEN r[key] ELSE ""

\* result records as search_cables returns them
ResultRecord(id, d) == [cable_id |-> id, title |-> "L", date |-> d]

SeqsUpTo(S, n) == UNION {[1..k -> S] : k \in 0..n}

\* the lists given to fetch_all_cables: the listing dates cables 1 and 2 only
CableInfo(id) == ResultRecord(id, IF id <= 2 THEN "D" ELSE "")
CableLists == SeqsUpTo({CableInfo(id) : id \in Ids}, MaxList)

\* what the detail page of a cable holds after parsing: the pages of the cables
\* with an even id carry a date and an origin, the others neither
Page(id) == IF id % 2 = 0
            THEN [title |-> "T", date |-> "P", origin |-> "O", full_text |-> "body"]
            ELSE [title |-> "T", date |-> "", origin |-> "", full_text |-> "body"]

\* descriptions of the failures of an HTTP attempt
Errs == {"timeout"}

(* ---- load_checkpoint / save_checkpoint ---- *)
DefaultCheckpoint == [keyword |-> "", cable_ids |-> <<>>, completed |-> EmptyMap]

NoFile == [exists |-> FALSE, valid |-> FALSE, data |-> DefaultCheckpoint]
\* opened for writing and truncated, the document not (fully) written
PartialFile == [exists |-> TRUE, valid |-> FALSE, data |-> DefaultCheckpoint]
\* variant: the id list of the run is left out of what is written
WrittenFileNoIds(cp) ==
    [exists |-> TRUE, valid |-> TRUE, data |-> [cp EXCEPT !.cable_ids = <<>>]]
WrittenFile(cp) == [exists |-> TRUE, valid |-> TRUE, data |-> cp]

\* json.load succeeds on the file, or there is no file
Loadable(f) == ~f.exists \/ f.valid

\* variant: the file is never read
load_checkpointFresh(f) == DefaultCheckpoint
load_checkpoint(f) == IF f.exists THEN f.data ELSE DefaultCheckpoint

(* ---- fetch_cable and the records of fetch_all_cables ---- *)
fetch_cable(cable_id, page) ==
    LET result == [cable_id |-> cable_id, title |-> page.title,
                   date |-> page.date, full_text |-> page.full_text]
    IN IF page.origin # "" THEN result @@ ("origin" :> page.origin) ELSE result

ErrorText(e) == "[ERROR: Failed to fetch - " \o e \o "]"

\* variant: the failure is not flagged in the record
ErrorRecordNoFlag(cable_info, e) ==
    ("cable_id" :> cable_info.cable_id) @@ ("title" :> Get(cable_info, "title"))
    @@ ("full_text" :> ErrorText(e))

ErrorRecord(cable_info, e) ==
    ("cable_id" :> cable_info.cable_id) @@ ("title" :> Get(cable_info, "title"))
    @@ ("full_text" :> ErrorText(e)) @@ ("_fetch_error" :> e)

\* variant: the date of the search result wins whenever there is one
DateFallbackAlways(data, cable_info) ==
    IF Get(cable_info, "date") # ""
    THEN ("date" :> cable_info.date) @@ data
    ELSE data

\* search-result date as fallback if the cable page had no date
DateFallback(data, cable_info) ==
    IF Get(data, "date") = "" /\ Get(cable_info, "date") # ""
    THEN ("date" :> cable_info.date) @@ data
    ELSE data

\* variant: any entry counts as complete, a failed one too
IsCompleteNoRetry(completed, cable_id) == cable_id \in DOMAIN completed

\* variant: no entry counts as complete
IsCompleteNever(completed, cable_id) == FALSE

\* the test of the skip branch
IsComplete(completed, cable_id) ==
    cable_id \in DOMAIN completed /\ ~Has(completed[cable_id], "_fetch_error")

total == Len(cable_list)
cable_info == cable_list[i + 1]
completed == checkpoint.completed

LoopPc(j) == IF j < total THEN "loop" ELSE "done"

(* ---- fetch_all_cables ---- *)
\* first next() of a new generator: load the checkpoint, set cable_ids
\* (the record of the run before is kept only to compare a repeat with it)
Start ==
    /\ fpc = "idle"
    /\ runs < MaxRuns
    /\ \E list \in CableLists :
        /\ cable_list' = list
        /\ rerun' = (prev_done /\ list = cable_list)
        /\ prev_done' = (prev_done /\ list = cable_list)
        /\ prev_clean' = (prev_clean /\ list = cable_list)
        /\ prev_yielded' = IF prev_clean /\ list = cable_list
                           THEN prev_yielded ELSE <<>>
        /\ runs' = runs + 1
        /\ timeline' = <<>>
        /\ yielded' = <<>>
        /\ fetched' = <<>>
        /\ i' = 0
        /\ attempt' = 0
        /\ IF Loadable(file)
           THEN /\ checkpoint' = [load_checkpoint(file) EXCEPT
                                    !.cable_ids = [k \in 1..Len(list) |-> list[k].cable_id]]
                /\ loaded' = load_checkpoint(file).completed
                /\ raised' = "none"
                /\ fpc' = IF Len(list) > 0 THEN "loop" ELSE "done"
           ELSE /\ checkpoint' = DefaultCheckpoint
                /\ loaded' = EmptyMap
                /\ raised' = "JSONDecodeError"
                /\ fpc' = "raised"
    /\ UNCHANGED <<file, cable_data>>
    /\ UNCHANGED svars
    /\ UNCHANGED hvars

\* variant: the skip branch continues without yielding
SkipWithoutYield ==
    /\ fpc = "loop"
    /\ IsComplete(completed, cable_info.cable_id)
    /\ fpc' = "yielded_skip"
    /\ UNCHANGED <<file, cable_list, checkpoint, i, attempt, cable_data, raised,
                   yielded, fetched, loaded, rerun, prev_done, prev_clean,
                   prev_yielded, runs, timeline>>
    /\ UNCHANGED svars
    /\ UNCHANGED hvars

\* variant: the skip branch saves the checkpoint before yielding
SkipRewriting ==
    /\ fpc = "loop"
    /\ IsComplete(completed, cable_info.cable_id)
    /\ file' = WrittenFile(checkpoint)
    /\ yielded' = Append(yielded, [index |-> i + 1, total |-> total,
                                   rec |-> completed[cable_info.cable_id],
                                   how |-> "checkpoint"])
    /\ fpc' = "yielded_skip"
    /\ UNCHANGED <<cable_list, checkpoint, i, attempt, cable_data, raised,
                   fetched, loaded, rerun, prev_done, prev_clean,
                   prev_yielded, runs, timeline>>
    /\ UNCHANGED svars
    /\ UNCHANGED hvars

\* already completed: yield the stored entry
Skip ==
    /\ fpc = "loop"
    /\ IsComplete(completed, cable_info.cable_id)
    /\ yielded' = Append(yielded, [index |-> i + 1, total |-> total,
                                   rec |-> completed[cable_info.cable_id],
                                   how |-> "checkpoint"])
    /\ fpc' = "yielded_skip"
    /\ UNCHANGED <<file, cable_list, checkpoint, i, attempt, cable_data, raised,
                   fetched, loaded, rerun, prev_done, prev_clean,
                   prev_yielded, runs, timeline>>
    /\ UNCHANGED svars
    /\ UNCHANGED hvars

\* the consumer asks for the next tuple after a skipped one: continue
ResumeSkip ==
    /\ fpc = "yielded_skip"
    /\ i' = i + 1
    /\ fpc' = LoopPc(i + 1)
    /\ UNCHANGED <<file, cable_list, checkpoint, attempt, cable_data, raised,
                   yielded, fetched, loaded, rerun, prev_done, prev_clean,
                   prev_yielded, runs, timeline>>
    /\ UNCHANGED svars
    /\ UNCHANGED hvars

\* fetch_cable is called: _request_with_retry starts
BeginFetch ==
    /\ fpc = "loop"
    /\ ~IsComplete(completed, cable_info.cable_id)
    /\ fetched' = Append(fetched, cable_info.cable_id)
    /\ timeline' = Append(timeline, [ev |-> "fetch", at |-> i])
    /\ attempt' = 0
    /\ fpc' = "attempt"
    /\ UNCHANGED <<file, cable_list, checkpoint, i, cable_data, raised,
                   yielded, loaded, rerun, prev_done, prev_clean,
                   prev_yielded, runs>>
    /\ UNCHANGED svars
    /\ UNCHANGED hvars

\* an HTTP attempt succeeds: the page is parsed into the record
AttemptOk ==
    /\ fpc = "attempt"
    /\ cable_data' = DateFallback(fetch_cable(cable_info.cable_id,
                                               Page(cable_info.cable_id)), cable_info)
    /\ attempt' = 0
    /\ fpc' = "save"
    /\ UNCHANGED <<file, cable_list, checkpoint, i, raised,
                   yielded, fetched, loaded, rerun, prev_done, prev_clean,
                   prev_yielded, runs, timeline>>
    /\ UNCHANGED svars
    /\ UNCHANGED hvars

\* variant: a fetch that used up its retries is passed over, nothing recorded
AttemptFailNotRecorded ==
    /\ fpc = "attempt"
    /\ attempt' = attempt + 1
    /\ \E e \in Errs :
        IF attempt < MAX_RETRIES - 1
        THEN UNCHANGED <<cable_data, fpc>>
        ELSE /\ fpc' = "yielded"
             /\ UNCHANGED cable_data
    /\ UNCHANGED <<file, cable_list, checkpoint, i, raised,
                   yielded, fetched, loaded, rerun, prev_done, prev_clean,
                   prev_yielded, runs, timeline>>
    /\ UNCHANGED svars
    /\ UNCHANGED hvars

\* variant: one attempt more before giving up
AttemptFailOneMore ==
    /\ fpc = "attempt"
    /\ attempt' = attempt + 1
    /\ \E e \in Errs :
        IF attempt < MAX_RETRIES
        THEN UNCHANGED <<cable_data, fpc>>
        ELSE /\ cable_data' = DateFallback(ErrorRecord(cable_info, e), cable_info)
             /\ fpc' = "save"
    /\ UNCHANGED <<file, cable_list, checkpoint, i, raised,
                   yielded, fetched, loaded, rerun, prev_done, prev_clean,
                   prev_yielded, runs, timeline>>
    /\ UNCHANGED svars
    /\ UNCHANGED hvars

\* an HTTP attempt fails: back off and retry, or give up after MAX_RETRIES
AttemptFail ==
    /\ fpc = "attempt"
    /\ attempt' = attempt + 1
    /\ \E e \in Errs :
        IF attempt < MAX_RETRIES - 1
        THEN UNCHANGED <<cable_data, fpc>>
        ELSE /\ cable_data' = DateFallback(ErrorRecord(cable_info, e), cable_info)
             /\ fpc' = "save"
    /\ UNCHANGED <<file, cable_list, checkpoint, i, raised,
                   yielded, fetched, loaded, rerun, prev_done, prev_clean,
                   prev_yielded, runs, timeline>>
    /\ UNCHANGED svars
    /\ UNCHANGED hvars

\* variant: the entry is stored under the loop index
SaveOpenKeyedByIndex ==
    /\ fpc = "save"
    /\ checkpoint' = [checkpoint EXCEPT
                        !.completed = ((i + 1) :> cable_data) @@ completed]
    /\ file' = PartialFile
    /\ fpc' = "dump"
    /\ UNCHANGED <<cable_list, i, attempt, cable_data, raised,
                   yielded, fetched, loaded, rerun, prev_done, prev_clean,
                   prev_yielded, runs, timeline>>
    /\ UNCHANGED svars
    /\ UNCHANGED hvars

\* variant: an entry already in the mapping is kept as it is
SaveOpenKeepsEntry ==
    /\ fpc = "save"
    /\ checkpoint' = [checkpoint EXCEPT
                        !.completed = completed @@ (cable_info.cable_id :> cable_data)]
    /\ file' = PartialFile
    /\ fpc' = "dump"
    /\ UNCHANGED <<cable_list, i, attempt, cable_data, raised,
                   yielded, fetched, loaded, rerun, prev_done, prev_clean,
                   prev_yielded, runs, timeline>>
    /\ UNCHANGED svars
    /\ UNCHANGED hvars

\* completed[cable_id] = cable_data; save_checkpoint opens the file for writing
SaveOpen ==
    /\ fpc = "save"
    /\ checkpoint' = [checkpoint EXCEPT
                        !.completed = (cable_info.cable_id :> cable_data) @@ completed]
    /\ file' = PartialFile
    /\ fpc' = "dump"
    /\ UNCHANGED <<cable_list, i, attempt, cable_data, raised,
                   yielded, fetched, loaded, rerun, prev_done, prev_clean,
                   prev_yielded, runs, timeline>>
    /\ UNCHANGED svars
    /\ UNCHANGED hvars

\* variant: the tuple is yielded before the checkpoint is saved
SaveFailAfterYield ==
    /\ fpc = "save"
    /\ checkpoint' = [checkpoint EXCEPT
                        !.completed = (cable_info.cable_id :> cable_data) @@ completed]
    /\ yielded' = Append(yielded, [index |-> i + 1, total |-> total,
                                   rec |-> cable_data, how |-> "fetched"])
    /\ raised' = "OSError"
    /\ fpc' = "raised"
    /\ UNCHANGED <<file, cable_list, i, attempt, cable_data,
                   fetched, loaded, rerun, prev_done, prev_clean,
                   prev_yielded, runs, timeline>>
    /\ UNCHANGED svars
    /\ UNCHANGED hvars

\* open() fails: the OSError leaves the generator
SaveFail ==
    /\ fpc = "save"
    /\ checkpoint' = [checkpoint EXCEPT
                        !.completed = (cable_info.cable_id :> cable_data) @@ completed]
    /\ raised' = "OSError"
    /\ fpc' = "raised"
    /\ UNCHANGED <<file, cable_list, i, attempt, cable_data,
                   yielded, fetched, loaded, rerun, prev_done, prev_clean,
                   prev_yielded, runs, timeline>>
    /\ UNCHANGED svars
    /\ UNCHANGED hvars

\* json.dump or the closing write fails: the OSError leaves the generator and
\* the truncated file stays
DumpFail ==
    /\ fpc = "dump"
    /\ raised' = "OSError"
    /\ fpc' = "raised"
    /\ UNCHANGED <<file, cable_list, checkpoint, i, attempt, cable_data,
                   yielded, fetched, loaded, rerun, prev_done, prev_clean,
                   prev_yielded, runs, timeline>>
    /\ UNCHANGED svars
    /\ UNCHANGED hvars

\* json.dump completes, the file is closed, the tuple is yielded
SaveDump ==
    /\ fpc = "dump"
    /\ file' = WrittenFile(checkpoint)
    /\ yielded' = Append(yielded, [index |-> i + 1, total |-> total,
                                   rec |-> cable_data,
                                   how |-> IF attempt = MAX_RETRIES
                                           THEN "failed" ELSE "fetched"])
    /\ fpc' = "yielded"
    /\ UNCHANGED <<cable_list, checkpoint, i, attempt, cable_data, raised,
                   fetched, loaded, rerun, prev_done, prev_clean,
                   prev_yielded, runs, timeline>>
    /\ UNCHANGED svars
    /\ UNCHANGED hvars

\* variant: the rate-limit sleep runs after the last record too
ResumeSleepsAfterLast ==
    /\ fpc = "yielded"
    /\ timeline' = Append(timeline, [ev |-> "sleep", at |-> i])
    /\ i' = i + 1
    /\ fpc' = LoopPc(i + 1)
    /\ UNCHANGED <<file, cable_list, checkpoint, attempt, cable_data, raised,
                   yielded, fetched, loaded, rerun, prev_done, prev_clean,
                   prev_yielded, runs>>
    /\ UNCHANGED svars
    /\ UNCHANGED hvars

\* variant: the loop goes on without the rate-limit sleep
ResumeWithoutSleep ==
    /\ fpc = "yielded"
    /\ i' = i + 1
    /\ fpc' = LoopPc(i + 1)
    /\ UNCHANGED <<file, cable_list, checkpoint, attempt, cable_data, raised,
                   yielded, fetched, loaded, rerun, prev_done, prev_clean,
                   prev_yielded, runs, timeline>>
    /\ UNCHANGED svars
    /\ UNCHANGED hvars

\* the consumer asks for the next tuple: rate-limit sleep unless last, next id
Resume ==
    /\ fpc = "yielded"
    /\ timeline' = IF i < total - 1
                   THEN Append(timeline, [ev |-> "sleep", at |-> i])
                   ELSE timeline
    /\ i' = i + 1
    /\ fpc' = LoopPc(i + 1)
    /\ UNCHANGED <<file, cable_list, checkpoint, attempt, cable_data, raised,
                   yielded, fetched, loaded, rerun, prev_done, prev_clean,
                   prev_yielded, runs>>
    /\ UNCHANGED svars
    /\ UNCHANGED hvars

\* the (index, total, record) tuples as the consumer gets them
Tuples(ys) ==
    [k \in 1..Len(ys) |-> [index |-> ys[k].index, total |-> ys[k].total,
                           rec |-> ys[k].rec]]
\* no yielded record carries _fetch_error
NoFetchError(ys) == \A k \in 1..Len(ys) : ~Has(ys[k].rec, "_fetch_error")

Running == fpc \in {"loop", "attempt", "save", "dump", "yielded", "yielded_skip"}

\* the process is killed or interrupted: only the file survives
Crash ==
    /\ Running
    /\ fpc' = "crashed"
    /\ UNCHANGED <<file, cable_list, checkpoint, i, attempt, cable_data, raised,
                   yielded, fetched, loaded, rerun, prev_done, prev_clean,
                   prev_yielded, runs, timeline>>
    /\ UNCHANGED svars
    /\ UNCHANGED hvars

\* the generator is finished, closed or gone with its process: nothing of it
\* is left but the file
Return ==
    /\ fpc \in {"done", "crashed", "raised"}
    /\ fpc' = "idle"
    /\ prev_done' = (fpc = "done")
    /\ prev_clean' = (fpc = "done" /\ NoFetchError(yielded))
    /\ prev_yielded' = IF fpc = "done" /\ NoFetchError(yielded)
                       THEN Tuples(yielded) ELSE <<>>
    /\ cable_list' = IF fpc = "done" THEN cable_list ELSE <<>>
    /\ checkpoint' = DefaultCheckpoint
    /\ i' = 0
    /\ attempt' = 0
    /\ cable_data' = EmptyMap
    /\ raised' = "none"
    /\ yielded' = <<>>
    /\ fetched' = <<>>
    /\ loaded' = EmptyMap
    /\ rerun' = FALSE
    /\ timeline' = <<>>
    /\ UNCHANGED <<file, runs>>
    /\ UNCHANGED svars
    /\ UNCHANGED hvars

FetchInit ==
    /\ file = NoFile
    /\ fpc = "idle"
    /\ cable_list = <<>>
    /\ checkpoint = DefaultCheckpoint
    /\ i = 0
    /\ attempt = 0
    /\ cable_data = EmptyMap
    /\ raised = "none"
    /\ yielded = <<>>
    /\ fetched = <<>>
    /\ loaded = EmptyMap
    /\ rerun = FALSE
    /\ prev_done = FALSE
    /\ prev_clean = FALSE
    /\ prev_yielded = <<>>
    /\ runs = 0
    /\ timeline = <<>>

\* search_cables has not been called
NoCall == "(no call)"
\* the keyword arguments: empty, or some search words
Keywords == {"", "cable"}

SearchInit ==
    /\ spc = "idle"
    /\ results = <<>>
    /\ page1 = <<>>
    /\ first = [seen |-> FALSE, pp |-> "absent", tok |-> "none",
                params |-> EmptyMap]
    /\ token = ""
    /\ reqs = <<>>
    /\ resps = <<>>
    /\ ret = <<>>
    /\ sraised = "none"
    /\ keyword = NoCall
    /\ curl_calls = 0

\* no _request_with_retry call under way
RetryInit ==
    /\ rpc = "idle"
    /\ rurl = ""
    /\ rattempt = 0
    /\ rtries = <<>>
    /\ rsleeps = <<>>
    /\ rout = "none"

\* no conversion asked for
JsIdle ==
    /\ jpc = "done"
    /\ js_obj = <<>>
    /\ js_orig = EmptyMap
    /\ json_str = <<>>
    /\ page_params = [ok |-> FALSE, obj |-> EmptyMap]

\* no _normalize_date call asked for
DateIdle ==
    /\ dpc = "done"
    /\ raw_date = <<>>
    /\ norm_date = <<>>

\* what `extracted` holds before the call
NotExtracted == [ok |-> FALSE, error |-> "none", page_params |-> EmptyMap,
                 result_token |-> ""]
\* no _extract_page_parameters call asked for
ExtractIdle ==
    /\ xpc = "done"
    /\ page_html = [assigned |-> FALSE, rest |-> <<>>, tok |-> "none"]
    /\ extracted = NotExtracted

\* no step-wise _js_obj_to_json call asked for
ScanIdle ==
    /\ scan_pc = "done"
    /\ scan_s = <<>>
    /\ scan_i = 0
    /\ scan_result = <<>>
    /\ scan_regions = <<>>
    /\ scan_json = <<>>

\* no _parse_result_rows call asked for on its own
ParseIdle ==
    /\ parse_pc = "done"
    /\ parse_html = <<>>
    /\ parse_results = <<>>

\* main has not called run_session yet; no checkpoint file in the directory
SessionIdle ==
    /\ session_pc = "idle"
    /\ sessions = 0
    /\ search_num = 0
    /\ all_cables = <<>>
    /\ checkpoint_files = {}

Init == FetchInit /\ SearchInit /\ RetryInit /\ JsIdle /\ DateIdle /\ ExtractIdle
        /\ ScanIdle /\ ParseIdle /\ SessionIdle

FetchNext ==
    \/ Start
    \/ Skip
    \/ ResumeSkip
    \/ BeginFetch
    \/ AttemptOk
    \/ AttemptFail
    \/ SaveOpen
    \/ SaveFail
    \/ DumpFail
    \/ SaveDump
    \/ Resume
    \/ Crash
    \/ Return

FetchSpec == Init /\ [][FetchNext]_vars

\* a step of the generator's own code, the consumer's next() included: the
\* program is sequential, every HTTP attempt returns or fails, and the
\* consumer's for loop asks for the next tuple as soon as it has one
GeneratorStep ==
    \/ Skip
    \/ ResumeSkip
    \/ BeginFetch
    \/ AttemptOk
    \/ AttemptFail
    \/ SaveOpen
    \/ SaveFail
    \/ DumpFail
    \/ SaveDump
    \/ Resume

FetchLiveSpec == Init /\ [][FetchNext]_vars /\ WF_vars(GeneratorStep)

(* ---- search_cables ---- *)
\* a table row of a listing: id 0 stands for a row whose id attribute is
\* empty or does not begin with a digit
TRs == {[id |-> 0, date |-> ""], [id |-> 1, date |-> ""],
        [id |-> 1, date |-> "D"], [id |-> 2, date |-> ""]}
Contents == SeqsUpTo(TRs, MaxRows)
\* the fragments of the continuation payloads: rows with a cable id only,
\* a dated one and an undated one
Fragments == SeqsUpTo({tr \in TRs : tr.id # 0 /\ (tr.date = "D" <=> tr.id = 1)},
                      MaxRows)

RECURSIVE parse_result_rows(_)
parse_result_rows(content) ==
    IF content = <<>> THEN <<>>
    ELSE LET tr == Head(content)
             rest == parse_result_rows(Tail(content))
         IN IF tr.id = 0 THEN rest
            ELSE <<ResultRecord(tr.id, tr.date)>> \o rest

\* the first response: its rows, the page_parameters assignment ("absent",
\* "malformed" or "ok") and the result_token literal ("none": the page has no
\* such literal)
\* the server's tokens: the n-th token it hands out is TokenNames[n]
TokenNames == <<"t1", "t2", "t3", "t4", "t5">>
\* the objects a page_parameters literal decodes to: one with the keys the
\* continuation request reads, one without any of them
PageParameters == {[project |-> "p1", subp |-> "sp1", qcanonical |-> "q1",
                    qcanonical_seal |-> "seal1", s |-> "s1"],
                   EmptyMap}
Htmls == [rows : Contents, pp : {"absent", "malformed"}, params : {EmptyMap},
          tok : {"none", "", TokenNames[1]}]
         \cup [rows : Contents, pp : {"ok"}, params : PageParameters,
                tok : {"none", "", TokenNames[1]}]

\* _extract_page_parameters: ok = FALSE stands for the ValueError
extract_page_parameters(html) ==
    IF html.pp # "ok"
    THEN [ok |-> FALSE, params |-> EmptyMap, token |-> ""]
    ELSE [ok |-> TRUE, params |-> html.params,
          token |-> IF html.tok # "none" THEN html.tok ELSE ""]

\* dict.get(key, default)
GetOr(r, key, default) == IF key \in DOMAIN r THEN r[key] ELSE default
\* the query of a continuation request (date bounds are arguments of the
\* search and left out)
sphinx_params(params, tok) ==
    [project |-> GetOr(params, "project", "all_cables"),
     subp |-> GetOr(params, "subp", "cg"),
     qcanonical |-> Get(params, "qcanonical"),
     qcanonical_seal |-> Get(params, "qcanonical_seal"),
     qsort |-> "tasc", qlimit |-> QLIMIT, token |-> tok]
    @@ (IF Get(params, "s") # "" THEN [s |-> params["s"]] ELSE EmptyMap)

\* the decoded payloads of a continuation response
Lengths == {QLIMIT - 1, QLIMIT, QLIMIT + 1}
\* the n-th continuation response carries no token or a fresh one
DataPayloads(n) == [content : Fragments, token : {"", TokenNames[n + 1]}, length : Lengths]

\* variant: only the token decides
ContinuesOnToken(length, new_token) == new_token # ""

\* variant: only a length equal to the limit lets the loop go on
ContinuesOnEqualLength(length, new_token) == length = QLIMIT /\ new_token # ""

\* the loop goes round again after this payload
Continues(length, new_token) == ~(length < QLIMIT \/ new_token = "")

\* deduplicate by cable_id, first occurrence kept
RECURSIVE DedupFrom(_, _, _)
DedupFrom(rs, seen, unique_results) ==
    IF rs = <<>> THEN unique_results
    ELSE LET r == Head(rs)
         IN IF r.cable_id \in seen
            THEN DedupFrom(Tail(rs), seen, unique_results)
            ELSE DedupFrom(Tail(rs), seen \cup {r.cable_id}, Append(unique_results, r))

\* variant: the last occurrence of an id is kept
DedupKeepsLast(rs) ==
    LET keep == {k \in 1..Len(rs) :
                    \A j \in (k + 1)..Len(rs) : rs[j].cable_id # rs[k].cable_id}
    IN [m \in 1..Cardinality(keep) |->
           rs[CHOOSE k \in keep : Cardinality({j \in keep : j < k}) = m - 1]]

Dedup(rs) == DedupFrom(rs, {}, <<>>)

\* variant: the keyword is tested after the first request
SearchNoKeywordAfterFetch ==
    /\ spc = "idle"
    /\ \E kw \in Keywords : kw = "" /\ keyword' = kw
    /\ curl_calls' = curl_calls + 1
    /\ sraised' = "ValueError"
    /\ spc' = "raised"
    /\ UNCHANGED <<results, page1, first, token, reqs, resps, ret>>
    /\ UNCHANGED fvars
    /\ UNCHANGED hvars

\* empty keyword: ValueError
SearchNoKeyword ==
    /\ spc = "idle"
    /\ \E kw \in Keywords : kw = "" /\ keyword' = kw
    /\ UNCHANGED curl_calls
    /\ sraised' = "ValueError"
    /\ spc' = "raised"
    /\ UNCHANGED <<results, page1, first, token, reqs, resps, ret>>
    /\ UNCHANGED fvars
    /\ UNCHANGED hvars

\* variant: a failed first request gives an empty list
SearchCurlFailDegrades ==
    /\ spc = "idle"
    /\ \E kw \in Keywords : kw # "" /\ keyword' = kw
    /\ curl_calls' = curl_calls + 1
    /\ ret' = <<>>
    /\ spc' = "returned"
    /\ UNCHANGED <<results, page1, first, token, reqs, resps, sraised>>
    /\ UNCHANGED fvars
    /\ UNCHANGED hvars

\* _curl_fetch fails or gives an empty document: ConnectionError
SearchCurlFail ==
    /\ spc = "idle"
    /\ \E kw \in Keywords : kw # "" /\ keyword' = kw
    /\ curl_calls' = curl_calls + 1
    /\ sraised' = "ConnectionError"
    /\ spc' = "raised"
    /\ UNCHANGED <<results, page1, first, token, reqs, resps, ret>>
    /\ UNCHANGED fvars
    /\ UNCHANGED hvars

\* variant: an empty token is not checked for
SearchFirstPageNoTokenCheck ==
    /\ spc = "idle"
    /\ \E kw \in Keywords : kw # "" /\ keyword' = kw
    /\ curl_calls' = curl_calls + 1
    /\ \E html \in Htmls :
        LET rows == parse_result_rows(html.rows)
            ext == extract_page_parameters(html)
        IN /\ page1' = rows
           /\ first' = [seen |-> TRUE, pp |-> html.pp, tok |-> html.tok,
                        params |-> ext.params]
           /\ results' = rows
           /\ IF ~ext.ok
              THEN /\ ret' = rows
                   /\ spc' = "returned"
                   /\ UNCHANGED <<token, reqs, attempt>>
              ELSE /\ token' = ext.token
                   /\ reqs' = <<sphinx_params(ext.params, ext.token)>>
                   /\ attempt' = 0
                   /\ spc' = "request"
                   /\ UNCHANGED ret
    /\ UNCHANGED <<resps, sraised>>
    /\ UNCHANGED fvarsNoAttempt
    /\ UNCHANGED hvars

\* the first response arrives: parse page 1, extract parameters and token
SearchFirstPage ==
    /\ spc = "idle"
    /\ \E kw \in Keywords : kw # "" /\ keyword' = kw
    /\ curl_calls' = curl_calls + 1
    /\ \E html \in Htmls :
        LET rows == parse_result_rows(html.rows)
            ext == extract_page_parameters(html)
        IN /\ page1' = rows
           /\ first' = [seen |-> TRUE, pp |-> html.pp, tok |-> html.tok,
                        params |-> ext.params]
           /\ results' = rows
           /\ IF ~ext.ok \/ ext.token = ""
              THEN /\ ret' = rows
                   /\ spc' = "returned"
                   /\ UNCHANGED <<token, reqs, attempt>>
              ELSE /\ token' = ext.token
                   /\ reqs' = <<sphinx_params(ext.params, ext.token)>>
                   /\ attempt' = 0
                   /\ spc' = "request"
                   /\ UNCHANGED ret
    /\ UNCHANGED <<resps, sraised>>
    /\ UNCHANGED fvarsNoAttempt
    /\ UNCHANGED hvars

\* an attempt of the continuation request fails: back off and retry, or
\* break out of the loop after MAX_RETRIES
ContAttemptFail ==
    /\ spc = "request"
    /\ Len(resps) < MaxPages
    /\ attempt' = attempt + 1
    /\ IF attempt < MAX_RETRIES - 1
       THEN UNCHANGED <<spc, ret>>
       ELSE /\ ret' = Dedup(results)
            /\ spc' = "returned"
    /\ UNCHANGED <<results, page1, first, token, reqs, resps, sraised>>
    /\ UNCHANGED fvarsNoAttempt
    /\ UNCHANGED <<keyword, curl_calls>>
    /\ UNCHANGED hvars

\* the response is not JSON: break out of the loop
ContUndecodable ==
    /\ spc = "request"
    /\ Len(resps) < MaxPages
    /\ resps' = Append(resps, [kind |-> "undecodable", length |-> 0, token |-> "",
                              content |-> <<>>])
    /\ ret' = Dedup(results)
    /\ spc' = "returned"
    /\ attempt' = 0
    /\ UNCHANGED <<results, page1, first, token, reqs, sraised>>
    /\ UNCHANGED fvarsNoAttempt
    /\ UNCHANGED <<keyword, curl_calls>>
    /\ UNCHANGED hvars

\* the response is JSON but not an object: data.get raises AttributeError
ContNotObject ==
    /\ spc = "request"
    /\ Len(resps) < MaxPages
    /\ resps' = Append(resps, [kind |-> "nonobject", length |-> 0, token |-> "",
                              content |-> <<>>])
    /\ sraised' = "AttributeError"
    /\ spc' = "raised"
    /\ attempt' = 0
    /\ UNCHANGED <<results, page1, first, token, reqs, ret>>
    /\ UNCHANGED fvarsNoAttempt
    /\ UNCHANGED <<keyword, curl_calls>>
    /\ UNCHANGED hvars

\* variant: the rows of the page that ends the pagination are not appended
ContDataDropsLastPage ==
    /\ spc = "request"
    /\ Len(resps) < MaxPages
    /\ \E data \in DataPayloads(Len(resps) + 1) :
        LET new_results == IF data.content # <<>>
                           THEN results \o parse_result_rows(data.content)
                           ELSE results
        IN /\ resps' = Append(resps, [kind |-> "data", length |-> data.length,
                                      token |-> data.token,
                                      content |-> data.content])
           /\ attempt' = 0
           /\ IF Continues(data.length, data.token)
              THEN /\ results' = new_results
                   /\ token' = data.token
                   /\ reqs' = Append(reqs, sphinx_params(first.params, data.token))
                   /\ UNCHANGED <<spc, ret>>
              ELSE /\ results' = results
                   /\ ret' = Dedup(results)
                   /\ spc' = "returned"
                   /\ UNCHANGED <<token, reqs>>
    /\ UNCHANGED <<page1, first, sraised>>
    /\ UNCHANGED fvarsNoAttempt
    /\ UNCHANGED <<keyword, curl_calls>>
    /\ UNCHANGED hvars

\* variant: the token is not replaced by the one of the response
ContDataKeepsToken ==
    /\ spc = "request"
    /\ Len(resps) < MaxPages
    /\ \E data \in DataPayloads(Len(resps) + 1) :
        LET new_results == IF data.content # <<>>
                           THEN results \o parse_result_rows(data.content)
                           ELSE results
        IN /\ resps' = Append(resps, [kind |-> "data", length |-> data.length,
                                      token |-> data.token,
                                      content |-> data.content])
           /\ results' = new_results
           /\ attempt' = 0
           /\ IF Continues(data.length, data.token)
              THEN /\ reqs' = Append(reqs, sphinx_params(first.params, token))
                   /\ UNCHANGED <<spc, ret, token>>
              ELSE /\ ret' = Dedup(new_results)
                   /\ spc' = "returned"
                   /\ UNCHANGED <<token, reqs>>
    /\ UNCHANGED <<page1, first, sraised>>
    /\ UNCHANGED fvarsNoAttempt
    /\ UNCHANGED <<keyword, curl_calls>>
    /\ UNCHANGED hvars

\* a payload arrives: append its rows, then stop or go round again
ContData ==
    /\ spc = "request"
    /\ Len(resps) < MaxPages
    /\ \E data \in DataPayloads(Len(resps) + 1) :
        LET new_results == IF data.content # <<>>
                           THEN results \o parse_result_rows(data.content)
                           ELSE results
        IN /\ resps' = Append(resps, [kind |-> "data", length |-> data.length,
                                      token |-> data.token,
                                      content |-> data.content])
           /\ results' = new_results
           /\ attempt' = 0
           /\ IF Continues(data.length, data.token)
              THEN /\ token' = data.token
                   /\ reqs' = Append(reqs, sphinx_params(first.params, data.token))
                   /\ UNCHANGED <<spc, ret>>
              ELSE /\ ret' = Dedup(new_results)
                   /\ spc' = "returned"
                   /\ UNCHANGED <<token, reqs>>
    /\ UNCHANGED <<page1, first, sraised>>
    /\ UNCHANGED fvarsNoAttempt
    /\ UNCHANGED <<keyword, curl_calls>>
    /\ UNCHANGED hvars

SearchNext ==
    \/ SearchNoKeyword
    \/ SearchCurlFail
    \/ SearchFirstPage
    \/ ContAttemptFail
    \/ ContUndecodable
    \/ ContNotObject
    \/ ContData

SearchSpec == Init /\ [][SearchNext]_vars

(* ======================= _request_with_retry ======================= *)
\* the endpoints requested through _request_with_retry
Urls == {"sphinxer_do", "cable_page"}
\* responses whose raise_for_status passes
Responses == {"resp_a", "resp_b"}
\* requests.RequestException subclasses: session.request raises the first
\* two, raise_for_status the third
RequestExceptions == {"ConnectionError", "Timeout", "HTTPError"}

RetryCall ==
    /\ rpc = "idle"
    /\ rurl' \in Urls
    /\ rpc' = "attempt"
    /\ UNCHANGED <<rattempt, rtries, rsleeps, rout>>
    /\ UNCHANGED <<fvars, svars, jvars, dvars, evars, kvars, pvars, mvars>>

\* the attempt gives a response with a good status: return it
RetryOk ==
    /\ rpc = "attempt"
    /\ \E resp \in Responses :
        /\ rtries' = Append(rtries, [ok |-> TRUE, val |-> resp])
        /\ rout' = resp
    /\ rpc' = "returned"
    /\ UNCHANGED <<rurl, rattempt, rsleeps>>
    /\ UNCHANGED <<fvars, svars, jvars, dvars, evars, kvars, pvars, mvars>>

\* variant: after the last attempt the first failure is raised
RetryFailRaisesFirst ==
    /\ rpc = "attempt"
    /\ \E e \in RequestExceptions :
        /\ rtries' = Append(rtries, [ok |-> FALSE, val |-> e])
        /\ IF rattempt < MAX_RETRIES - 1
           THEN /\ rsleeps' = Append(rsleeps, BACKOFF_SECONDS[rattempt + 1])
                /\ rattempt' = rattempt + 1
                /\ UNCHANGED <<rpc, rout>>
           ELSE /\ rout' = rtries'[1].val
                /\ rpc' = "raised"
                /\ UNCHANGED <<rattempt, rsleeps>>
    /\ UNCHANGED rurl
    /\ UNCHANGED <<fvars, svars, jvars, dvars, evars, kvars, pvars, mvars>>

\* variant: the backoff sleep runs after the last failed attempt too
RetryFailSleepsAfterLast ==
    /\ rpc = "attempt"
    /\ \E e \in RequestExceptions :
        /\ rtries' = Append(rtries, [ok |-> FALSE, val |-> e])
        /\ rsleeps' = Append(rsleeps, BACKOFF_SECONDS[rattempt + 1])
        /\ IF rattempt < MAX_RETRIES - 1
           THEN /\ rattempt' = rattempt + 1
                /\ UNCHANGED <<rpc, rout>>
           ELSE /\ rout' = e
                /\ rpc' = "raised"
                /\ UNCHANGED rattempt
    /\ UNCHANGED rurl
    /\ UNCHANGED <<fvars, svars, jvars, dvars, evars, kvars, pvars, mvars>>

\* the attempt raises a RequestException: sleep and go round again, or
\* re-raise it when it was the last attempt
RetryFail ==
    /\ rpc = "attempt"
    /\ \E e \in RequestExceptions :
        /\ rtries' = Append(rtries, [ok |-> FALSE, val |-> e])
        /\ IF rattempt < MAX_RETRIES - 1
           THEN /\ rsleeps' = Append(rsleeps, BACKOFF_SECONDS[rattempt + 1])
                /\ rattempt' = rattempt + 1
                /\ UNCHANGED <<rpc, rout>>
           ELSE /\ rout' = e
                /\ rpc' = "raised"
                /\ UNCHANGED <<rattempt, rsleeps>>
    /\ UNCHANGED rurl
    /\ UNCHANGED <<fvars, svars, jvars, dvars, evars, kvars, pvars, mvars>>

RetryNext ==
    \/ RetryCall
    \/ RetryOk
    \/ RetryFail

RetrySpec == Init /\ [][RetryNext]_vars

(* ======================= _js_obj_to_json ======================= *)
\* texts are sequences of one-character strings
WS == {" ", "\t", "\r", "\n"}
Structural == {"{", "}", ",", ":"}
QuoteMarks == {"\"", "'"}
Min(a, b) == IF a < b THEN a ELSE b

\* what str.lstrip and the pattern \s take for whitespace: the four above and
\* more, the form feed standing for the rest
Space == WS \cup {"\f"}
RECURSIVE SkipSpace(_, _)
\* position of the first character at or after p that str.lstrip keeps
SkipSpace(s, p) == IF p <= Len(s) /\ s[p] \in Space THEN SkipSpace(s, p + 1) ELSE p

RECURSIVE SkipWs(_, _)
\* position of the first character at or after p that is no whitespace
SkipWs(s, p) == IF p <= Len(s) /\ s[p] \in WS THEN SkipWs(s, p + 1) ELSE p

RECURSIVE StringEnd(_, _, _)
\* the inner loop over a quoted string: position where it stops, the closing
\* quote or past the end; a backslash takes the character after it along
StringEnd(s, j, quote) ==
    IF j > Len(s) \/ s[j] = quote
    THEN j
    ELSE IF s[j] = "\\"
         THEN StringEnd(s, j + 2, quote)
         ELSE StringEnd(s, j + 1, quote)

RECURSIVE UnescapeSingle(_)
\* content.replace("\\'", "'")
UnescapeSingle(content) ==
    IF content = <<>>
    THEN <<>>
    ELSE IF Len(content) >= 2 /\ content[1] = "\\" /\ content[2] = "'"
         THEN <<"'">> \o UnescapeSingle(SubSeq(content, 3, Len(content)))
         ELSE <<content[1]>> \o UnescapeSingle(Tail(content))

RECURSIVE EscapeDouble(_)
\* content.replace('"', '\\"')
EscapeDouble(content) ==
    IF content = <<>>
    THEN <<>>
    ELSE IF content[1] = "\""
         THEN <<"\\", "\"">> \o EscapeDouble(Tail(content))
         ELSE <<content[1]>> \o EscapeDouble(Tail(content))

RECURSIVE BareEnd(_, _)
\* position after the bare word that starts at or before j
BareEnd(s, j) ==
    IF j <= Len(s) /\ s[j] \notin (WS \cup Structural \cup QuoteMarks)
    THEN BareEnd(s, j + 1)
    ELSE j

RECURSIVE Scan(_, _, _)
\* the while loop of the character scan, from position p on
Scan(s, p, result) ==
    IF p > Len(s)
    THEN result
    ELSE LET ch == s[p]
         IN IF ch \in WS \/ ch \in Structural
            THEN Scan(s, p + 1, Append(result, ch))
            ELSE IF ch \in QuoteMarks
            THEN LET j == StringEnd(s, p + 1, ch)
                     raw == SubSeq(s, p + 1, Min(j - 1, Len(s)))
                     content == IF ch = "'"
                                THEN EscapeDouble(UnescapeSingle(raw))
                                ELSE raw
                 IN Scan(s, j + 1, result \o <<"\"">> \o content \o <<"\"">>)
            ELSE LET j == BareEnd(s, p)
                     word == SubSeq(s, p, j - 1)
                     rest == SkipSpace(s, j)
                 IN IF rest <= Len(s) /\ s[rest] = ":"
                    THEN Scan(s, j, result \o <<"\"">> \o word \o <<"\"">>)
                    ELSE Scan(s, j, result \o word)

RECURSIVE StripTrailingCommas(_)
\* re.sub(r",\s*}", "}", json_str)
StripTrailingCommas(t) ==
    IF t = <<>>
    THEN <<>>
    ELSE LET q == SkipSpace(t, 2)
         IN IF t[1] = "," /\ q <= Len(t) /\ t[q] = "}"
            THEN <<"}">> \o StripTrailingCommas(SubSeq(t, q + 1, Len(t)))
            ELSE <<t[1]>> \o StripTrailingCommas(Tail(t))

js_obj_to_json(s) == StripTrailingCommas(Scan(s, 1, <<>>))

(* ---- json.loads, for a flat object of string and number values ---- *)
\* the escapes of a JSON string that the texts here can hold
JsonUnescape ==
    [c \in {"\"", "\\", "/"} |-> c]
JsonFail == [ok |-> FALSE, val |-> <<>>, next |-> 0]
Str(text) == [type |-> "str", text |-> text]
Num(text) == [type |-> "num", text |-> text]

RECURSIVE JsonString(_, _, _)
\* a string from the position after its opening quote
JsonString(t, p, acc) ==
    IF p > Len(t)
    THEN JsonFail
    ELSE IF t[p] = "\""
    THEN [ok |-> TRUE, val |-> acc, next |-> p + 1]
    ELSE IF t[p] = "\\"
    THEN IF p + 1 <= Len(t) /\ t[p + 1] \in DOMAIN JsonUnescape
         THEN JsonString(t, p + 2, Append(acc, JsonUnescape[t[p + 1]]))
         ELSE JsonFail
    ELSE IF t[p] \in {"\t", "\r", "\n"}
    THEN JsonFail
    ELSE JsonString(t, p + 1, Append(acc, t[p]))

JsonDigits == {"0", "1"}
\* an unsigned integer without a leading zero
IsJsonNumber(w) ==
    /\ w # <<>>
    /\ \A k \in 1..Len(w) : w[k] \in JsonDigits
    /\ Len(w) > 1 => w[1] # "0"

JsonValue(t, p) ==
    IF p > Len(t)
    THEN JsonFail
    ELSE IF t[p] = "\""
    THEN LET v == JsonString(t, p + 1, <<>>)
         IN IF v.ok THEN [v EXCEPT !.val = Str(v.val)] ELSE JsonFail
    ELSE LET j == BareEnd(t, p)
             w == SubSeq(t, p, j - 1)
         IN IF IsJsonNumber(w)
            THEN [ok |-> TRUE, val |-> Num(w), next |-> j]
            ELSE JsonFail

RECURSIVE JsonMembers(_, _, _)
\* the members of an object from the position of a key on
JsonMembers(t, p, obj) ==
    IF p > Len(t) \/ t[p] # "\""
    THEN JsonFail
    ELSE LET k == JsonString(t, p + 1, <<>>)
         IN IF ~k.ok
            THEN JsonFail
            ELSE LET c == SkipWs(t, k.next)
                 IN IF c > Len(t) \/ t[c] # ":"
                    THEN JsonFail
                    ELSE LET v == JsonValue(t, SkipWs(t, c + 1))
                         IN IF ~v.ok
                            THEN JsonFail
                            ELSE LET e == SkipWs(t, v.next)
                                     obj2 == (k.val :> v.val) @@ obj
                                 IN IF e > Len(t)
                                    THEN JsonFail
                                    ELSE IF t[e] = "}"
                                    THEN [ok |-> TRUE, val |-> obj2, next |-> e + 1]
                                    ELSE IF t[e] = ","
                                    THEN JsonMembers(t, SkipWs(t, e + 1), obj2)
                                    ELSE JsonFail

\* [ok, obj]: ok is FALSE where json.loads raises JSONDecodeError
json_loads(t) ==
    LET p == SkipWs(t, 1)
        q == SkipWs(t, p + 1)
        r == IF p > Len(t) \/ t[p] # "{"
             THEN JsonFail
             ELSE IF q <= Len(t) /\ t[q] = "}"
             THEN [ok |-> TRUE, val |-> EmptyMap, next |-> q + 1]
             ELSE JsonMembers(t, q, EmptyMap)
    IN IF r.ok /\ SkipWs(t, r.next) > Len(t)
       THEN [ok |-> TRUE, obj |-> r.val]
       ELSE [ok |-> FALSE, obj |-> EmptyMap]

(* ---- object literals: what is written and what it denotes ---- *)
\* pieces of a single-quoted JavaScript string
SqItems ==
    {[src |-> <<"x">>, val |-> <<"x">>],
     [src |-> <<"\\", "'">>, val |-> <<"'">>],
     [src |-> <<"\\", "\"">>, val |-> <<"\"">>],
     [src |-> <<"\"">>, val |-> <<"\"">>],
     [src |-> <<"\\", "\\">>, val |-> <<"\\">>]}
\* pieces of a double-quoted JavaScript string
DqItems ==
    {[src |-> <<"y">>, val |-> <<"y">>],
     [src |-> <<":">>, val |-> <<":">>],
     [src |-> <<"\\", "\"">>, val |-> <<"\"">>],
     [src |-> <<"'">>, val |-> <<"'">>]}
IsEscapedQuote(item) == Len(item.src) = 2 /\ item.src[2] \in QuoteMarks

RECURSIVE Src(_)
Src(items) == IF items = <<>> THEN <<>> ELSE Head(items).src \o Src(Tail(items))
RECURSIVE Val(_)
Val(items) == IF items = <<>> THEN <<>> ELSE Head(items).val \o Val(Tail(items))

SqValues == {sq \in SeqsUpTo(SqItems, MaxItems) :
                \E k \in 1..Len(sq) : IsEscapedQuote(sq[k])}
DqValues == {dq \in SeqsUpTo(DqItems, MaxItems) :
                \E k \in 1..Len(dq) : dq[k].src = <<":">>}
Gaps == {<<>>, <<" ">>}

\* {a: '...', k: "...",} with an unquoted key before each value
LiteralText(sq, dq, gap) ==
    <<"{", "a", ":", " ", "'">> \o Src(sq) \o <<"'", ",", " ", "k", ":", " ", "\"">>
        \o Src(dq) \o <<"\"", ",">> \o gap \o <<"}">>
Denotes(sq, dq) == (<<"a">> :> Str(Val(sq))) @@ (<<"k">> :> Str(Val(dq)))

\* an object literal is at hand
JsInput ==
    /\ jpc = "input"
    /\ \E sq \in SqValues, dq \in DqValues, gap \in Gaps :
        /\ js_obj = LiteralText(sq, dq, gap)
        /\ js_orig = Denotes(sq, dq)
    /\ json_str = <<>>
    /\ page_params = [ok |-> FALSE, obj |-> EmptyMap]

JsInit == FetchInit /\ SearchInit /\ RetryInit /\ JsInput /\ DateIdle /\ ExtractIdle
          /\ ScanIdle /\ ParseIdle /\ SessionIdle

\* json_str = _js_obj_to_json(js_obj); page_params = json.loads(json_str)
JsConvert ==
    /\ jpc = "input"
    /\ json_str' = js_obj_to_json(js_obj)
    /\ page_params' = json_loads(js_obj_to_json(js_obj))
    /\ jpc' = "done"
    /\ UNCHANGED <<js_obj, js_orig>>
    /\ UNCHANGED <<fvars, svars, rvars, dvars, evars, kvars, pvars, mvars>>

JsNext == JsConvert

JsSpec == JsInit /\ [][JsNext]_vars

(* ======================= _normalize_date ======================= *)
\* a date text is a sequence of tokens: maximal runs of digits, of letters and
\* of whitespace, and single punctuation characters
D(ds) == [k |-> "d", ds |-> ds, w |-> ""]
W(w) == [k |-> "w", ds |-> <<>>, w |-> w]
SP == [k |-> "s", ds |-> <<>>, w |-> ""]
COMMA == [k |-> ",", ds |-> <<>>, w |-> ""]
DASH == [k |-> "-", ds |-> <<>>, w |-> ""]
PAREN == [k |-> "(", ds |-> <<>>, w |-> ""]

Kind(t, p) == IF p >= 1 /\ p <= Len(t) THEN t[p].k ELSE "end"

RECURSIVE WordRunEnd(_, _)
\* position after the run that \w+ takes from position p
WordRunEnd(t, p) ==
    IF Kind(t, p) \in {"d", "w"} THEN WordRunEnd(t, p + 1) ELSE p

RECURSIVE Value(_)
\* int() of a run of digits
Value(ds) == IF ds = <<>> THEN 0 ELSE 10 * Value(SubSeq(ds, 1, Len(ds) - 1)) + ds[Len(ds)]

\* %B and %b of the C locale, compared without regard to case
FullMonths ==
    [w \in {"December", "February", "May"} |->
        IF w = "December" THEN 12 ELSE IF w = "February" THEN 2 ELSE 5]
AbbrMonths ==
    [w \in {"Dec", "Feb", "May"} |->
        IF w = "Dec" THEN 12 ELSE IF w = "Feb" THEN 2 ELSE 5]

IsLeap(y) == (y % 4 = 0 /\ y % 100 # 0) \/ y % 400 = 0
DaysIn(m, y) ==
    IF m = 2 THEN (IF IsLeap(y) THEN 29 ELSE 28)
    ELSE IF m \in {4, 6, 9, 11} THEN 30 ELSE 31

\* datetime.strptime on "<year> <month> <day>": [ok, y, m, d]; ok is FALSE
\* where it raises ValueError. word is the \w+ group, a run of tokens.
strptime(year, word, day, months) ==
    LET y == Value(year)
        d == Value(day)
        known == Len(word) = 1 /\ word[1].k = "w" /\ word[1].w \in DOMAIN months
        m == IF known THEN months[word[1].w] ELSE 0
    IN IF known /\ y >= 1 /\ d >= 1 /\ d <= DaysIn(m, y)
       THEN [ok |-> TRUE, y |-> y, m |-> m, d |-> d]
       ELSE [ok |-> FALSE, y |-> 0, m |-> 0, d |-> 0]

TwoDigits(n) == <<n \div 10, n % 10>>
FourDigits(n) == <<n \div 1000, (n \div 100) % 10, (n \div 10) % 10, n % 10>>
RECURSIVE Decimal(_)
\* the digits of n without leading zeros
Decimal(n) == IF n < 10 THEN <<n>> ELSE Append(Decimal(n \div 10), n % 10)

\* dt.strftime("%Y-%m-%d"); the C library decides whether %Y pads a year
\* below 1000 to four digits
strftime(dt, padded) ==
    <<D(IF padded THEN FourDigits(dt.y) ELSE Decimal(dt.y)),
      DASH, D(TwoDigits(dt.m)), DASH, D(TwoDigits(dt.d))>>

NoMatch == [ok |-> FALSE, y |-> 0, m |-> 0, d |-> 0]

\* re.match(r"(\d{4})\s+(\w+)\s+(\d{1,2})") and strptime "%Y %B %d"
DetailFormat(t) ==
    LET e == WordRunEnd(t, 3)
    IN IF /\ Kind(t, 1) = "d" /\ Len(t[1].ds) = 4
          /\ Kind(t, 2) = "s"
          /\ e > 3
          /\ Kind(t, e) = "s"
          /\ Kind(t, e + 1) = "d"
       THEN strptime(t[1].ds, SubSeq(t, 3, e - 1),
                     SubSeq(t[e + 1].ds, 1, Min(2, Len(t[e + 1].ds))), FullMonths)
       ELSE NoMatch

\* re.match(r"\w+,\s+(\d{1,2})\s+(\w+)\s+(\d{4})") and strptime "%d %b %Y"
ListingFormat(t) ==
    LET a == WordRunEnd(t, 1)
        e == WordRunEnd(t, a + 4)
    IN IF /\ a > 1
          /\ Kind(t, a) = ","
          /\ Kind(t, a + 1) = "s"
          /\ Kind(t, a + 2) = "d" /\ Len(t[a + 2].ds) <= 2
          /\ Kind(t, a + 3) = "s"
          /\ e > a + 4
          /\ Kind(t, e) = "s"
          /\ Kind(t, e + 1) = "d" /\ Len(t[e + 1].ds) >= 4
       THEN strptime(SubSeq(t[e + 1].ds, 1, 4), SubSeq(t, a + 4, e - 1),
                     t[a + 2].ds, AbbrMonths)
       ELSE NoMatch

\* positions where r"\d{4}-\d{2}-\d{2}" matches
IsoAt(t) ==
    {p \in 1..Len(t) :
        /\ Kind(t, p) = "d" /\ Len(t[p].ds) >= 4
        /\ Kind(t, p + 1) = "-"
        /\ Kind(t, p + 2) = "d" /\ Len(t[p + 2].ds) = 2
        /\ Kind(t, p + 3) = "-"
        /\ Kind(t, p + 4) = "d" /\ Len(t[p + 4].ds) >= 2}
\* m.group(0) of re.search: the leftmost match, as it stands in the text
IsoSubstring(t) ==
    LET p == CHOOSE q \in IsoAt(t) : \A r \in IsoAt(t) : q <= r
        n == Len(t[p].ds)
    IN <<D(SubSeq(t[p].ds, n - 3, n)), DASH, t[p + 2], DASH,
         D(SubSeq(t[p + 4].ds, 1, 2))>>

normalize_date(t, padded) ==
    IF t = <<>>
    THEN <<>>
    ELSE IF DetailFormat(t).ok
    THEN strftime(DetailFormat(t), padded)
    ELSE IF ListingFormat(t).ok
    THEN strftime(ListingFormat(t), padded)
    ELSE IF IsoAt(t) # {}
    THEN IsoSubstring(t)
    ELSE <<>>

(* ---- date texts ---- *)
Years == {<<1, 9, 8, 7>>, <<1, 9, 8, 8>>, <<0, 9, 8, 7>>, <<0, 0, 0, 0>>}
MonthWords == {"December", "Dec", "February", "Feb", "May", "Foo"}
DayDigits == {<<1, 9>>, <<2, 9>>, <<3, 0>>, <<0>>, <<5>>, <<1, 9, 9>>}
IsoText(y, m, d) == <<D(y), DASH, D(m), DASH, D(d)>>
Tails == {<<>>, <<PAREN>> \o IsoText(<<2, 0, 0, 1>>, <<0, 2>>, <<0, 3>>)}
\* "1987 December 19, 20:12 (Saturday)" and its like
DetailTexts ==
    {<<D(y), SP, W(w), SP, D(d)>> \o tail :
        y \in Years, w \in MonthWords, d \in DayDigits, tail \in Tails}
\* "Sat, 19 Dec 1987" and its like
ListingTexts ==
    {<<W("Sat"), COMMA, SP, D(d), SP, W(w), SP, D(y)>> \o tail :
        y \in Years, w \in MonthWords, d \in DayDigits, tail \in Tails}
\* "1987-12-19" and its like, with or without text before it
IsoTexts ==
    {pre \o IsoText(y, m, d) :
        pre \in {<<>>, <<W("x"), SP>>},
        y \in {<<2, 0, 0, 1>>, <<1, 2, 0, 0, 1>>, <<0, 0, 1>>},
        m \in {<<0, 2>>, <<2>>, <<0, 2, 2>>},
        d \in {<<0, 3>>, <<0, 3, 1>>, <<3>>}}
OtherTexts == {<<>>, <<W("not"), SP, W("a"), SP, W("date")>>}
RawDates == DetailTexts \cup ListingTexts \cup IsoTexts \cup OtherTexts

\* a date text is at hand
DateInput ==
    /\ dpc = "input"
    /\ raw_date \in RawDates
    /\ norm_date = <<>>

DateInit == FetchInit /\ SearchInit /\ RetryInit /\ JsIdle /\ DateInput /\ ExtractIdle
            /\ ScanIdle /\ ParseIdle /\ SessionIdle

\* norm_date = _normalize_date(raw_date)
NormalizeDate ==
    /\ dpc = "input"
    /\ \E padded \in BOOLEAN : norm_date' = normalize_date(raw_date, padded)
    /\ dpc' = "done"
    /\ UNCHANGED raw_date
    /\ UNCHANGED <<fvars, svars, rvars, jvars, evars, kvars, pvars, mvars>>

DateNext == NormalizeDate

DateSpec == DateInit /\ [][DateNext]_vars

(* ======================= _extract_page_parameters ======================= *)
\* a search page is taken by what the two patterns can see of it: whether
\* "var page_parameters =" occurs, the text that follows it, and the text
\* between the quotes of the result_token assignment ("none": no such
\* assignment)
RECURSIVE ClosingBrace(_, _)
\* the lazy .*? of the pattern: the first "}" at or after q that is followed,
\* after whitespace, by ";" (0 if there is none)
ClosingBrace(rest, q) ==
    IF q > Len(rest)
    THEN 0
    ELSE IF rest[q] = "}" /\ SkipSpace(rest, q + 1) <= Len(rest)
                          /\ rest[SkipSpace(rest, q + 1)] = ";"
         THEN q
         ELSE ClosingBrace(rest, q + 1)

\* re.search(r"var\s+page_parameters\s*=\s*(\{.*?\})\s*;", html): [found, group]
page_parameters_match(h) ==
    LET p == SkipSpace(h.rest, 1)
        q == IF p <= Len(h.rest) /\ h.rest[p] = "{"
             THEN ClosingBrace(h.rest, p + 1) ELSE 0
    IN IF h.assigned /\ q # 0
       THEN [found |-> TRUE, group |-> SubSeq(h.rest, p, q)]
       ELSE [found |-> FALSE, group |-> <<>>]

\* variant: a page without result_token is an error
ExtractPageParametersTokenRequired(h) ==
    LET match == page_parameters_match(h)
        decoded == json_loads(js_obj_to_json(match.group))
    IN IF ~match.found
       THEN [NotExtracted EXCEPT !.error = "ValueError: could not find"]
       ELSE IF ~decoded.ok
       THEN [NotExtracted EXCEPT !.error = "ValueError: could not parse"]
       ELSE IF h.tok = "none"
       THEN [NotExtracted EXCEPT !.error = "ValueError: could not find"]
       ELSE [ok |-> TRUE, error |-> "none", page_params |-> decoded.obj,
             result_token |-> h.tok]

\* the function on a page read this way
ExtractPageParameters(h) ==
    LET match == page_parameters_match(h)
        decoded == json_loads(js_obj_to_json(match.group))
    IN IF ~match.found
       THEN [NotExtracted EXCEPT !.error = "ValueError: could not find"]
       ELSE IF ~decoded.ok
       THEN [NotExtracted EXCEPT !.error = "ValueError: could not parse"]
       ELSE [ok |-> TRUE, error |-> "none", page_params |-> decoded.obj,
             result_token |-> IF h.tok # "none" THEN h.tok ELSE ""]

\* texts after the "=": the object literals followed by ";", and four more:
\* an empty object, an object without ";", a value that holds "};", and two
\* members without a comma
OtherRests ==
    {<<"{", "}", ";">>,
     <<"{", "a", ":", " ", "'", "x", "'", "}">>,
     <<"{", "a", ":", " ", "'", "}", ";", "'", "}", ";">>,
     <<"{", "a", ":", " ", "'", "x", "'", " ", "k", "}", " ", ";">>}
Rests ==
    {LiteralText(sq, dq, gap) \o <<";">> :
        sq \in SqValues, dq \in DqValues, gap \in Gaps} \cup OtherRests
PageHtmls ==
    [assigned : {TRUE}, rest : Rests, tok : {"none", "", TokenNames[1]}]
    \cup [assigned : {FALSE}, rest : {<<>>}, tok : {"none", "", TokenNames[1]}]

\* a page is at hand
ExtractInput ==
    /\ xpc = "input"
    /\ page_html \in PageHtmls
    /\ extracted = NotExtracted

ExtractInit == FetchInit /\ SearchInit /\ RetryInit /\ JsIdle /\ DateIdle /\ ExtractInput
               /\ ScanIdle /\ ParseIdle /\ SessionIdle

\* extracted = _extract_page_parameters(page_html)
Extract ==
    /\ xpc = "input"
    /\ extracted' = ExtractPageParameters(page_html)
    /\ xpc' = "done"
    /\ UNCHANGED page_html
    /\ UNCHANGED <<fvars, svars, rvars, jvars, dvars, kvars, pvars, mvars>>

ExtractNext == Extract

ExtractSpec == ExtractInit /\ [][ExtractNext]_vars

(* ============ _js_obj_to_json, one loop iteration at a time ============ *)
\* the characters of the texts scanned: the structural ones, a blank, a form
\* feed, a letter, the two quote marks and the backslash
ScanChars == {"{", "}", ",", ":", " ", "\f", "a", "'", "\"", "\\"}
ScanTexts == SeqsUpTo(ScanChars, MaxChars)

\* a text is at hand: result = [], i = 0
ScanInput ==
    /\ scan_pc = "scan"
    /\ scan_s \in ScanTexts
    /\ scan_i = 0
    /\ scan_result = <<>>
    /\ scan_regions = <<>>
    /\ scan_json = <<>>

ScanInit == FetchInit /\ SearchInit /\ RetryInit /\ JsIdle /\ DateIdle /\ ExtractIdle
            /\ ScanInput /\ ParseIdle /\ SessionIdle

\* s[i], with the positions of a sequence
ScanCh == scan_s[scan_i + 1]
\* one iteration took s[from:to] and appended out
Took(kind, to, out) ==
    /\ scan_result' = scan_result \o out
    /\ scan_regions' = Append(scan_regions, [kind |-> kind, from |-> scan_i,
                                              to |-> to, out |-> out])
    /\ scan_i' = to
    /\ UNCHANGED <<scan_pc, scan_s, scan_json>>
    /\ UNCHANGED <<fvars, svars, rvars, jvars, dvars, evars, pvars, mvars>>

\* whitespace or a structural character: passed through
ScanPass ==
    /\ scan_pc = "scan"
    /\ scan_i < Len(scan_s)
    /\ ScanCh \in WS \cup Structural
    /\ Took("pass", scan_i + 1, <<ScanCh>>)

\* a quoted string: up to its closing quote, written with double quotes
ScanString ==
    /\ scan_pc = "scan"
    /\ scan_i < Len(scan_s)
    /\ ScanCh \in QuoteMarks
    /\ LET j == StringEnd(scan_s, scan_i + 2, ScanCh)
           raw == SubSeq(scan_s, scan_i + 2, Min(j - 1, Len(scan_s)))
           content == IF ScanCh = "'"
                      THEN EscapeDouble(UnescapeSingle(raw))
                      ELSE raw
       IN Took("string", j, <<"\"">> \o content \o <<"\"">>)

\* variant: a bare word is taken one character short
ScanBareStays ==
    /\ scan_pc = "scan"
    /\ scan_i < Len(scan_s)
    /\ ScanCh \notin WS \cup Structural \cup QuoteMarks
    /\ LET j == BareEnd(scan_s, scan_i + 1)
       IN Took("bare", j - 2, SubSeq(scan_s, scan_i + 1, j - 2))

\* a bare word: quoted when s[j:].lstrip() begins with a colon
ScanBare ==
    /\ scan_pc = "scan"
    /\ scan_i < Len(scan_s)
    /\ ScanCh \notin WS \cup Structural \cup QuoteMarks
    /\ LET j == BareEnd(scan_s, scan_i + 1)
           word == SubSeq(scan_s, scan_i + 1, j - 1)
           rest == SkipSpace(scan_s, j)
       IN IF rest <= Len(scan_s) /\ scan_s[rest] = ":"
          THEN Took("bare", j - 1, <<"\"">> \o word \o <<"\"">>)
          ELSE Took("bare", j - 1, word)

\* the loop is left: join, drop the trailing commas, return
ScanReturn ==
    /\ scan_pc = "scan"
    /\ scan_i >= Len(scan_s)
    /\ scan_json' = StripTrailingCommas(scan_result)
    /\ scan_pc' = "done"
    /\ UNCHANGED <<scan_s, scan_i, scan_result, scan_regions>>
    /\ UNCHANGED <<fvars, svars, rvars, jvars, dvars, evars, pvars, mvars>>

ScanNext ==
    \/ ScanPass
    \/ ScanString
    \/ ScanBare
    \/ ScanReturn

ScanSpec == ScanInit /\ [][ScanNext]_vars

(* ======================= _parse_result_rows ======================= *)
\* a table row is taken by what the function reads of it: whether it has an
\* id attribute, the attribute's value, and its td cells, each with its text
\* and the text of its first link ("none": no link)
IdAttributes == {<<>>, <<" ">>, <<"1">>, <<" ", "2">>, <<"x", "1">>}
Digits == {"0", "1", "2", "3", "4", "5", "6", "7", "8", "9"}
Cell(text, link) == [text |-> text, link |-> link]
\* the date column: empty, or "Sat, 19 Dec 1987"
DateCells ==
    {Cell(<<>>, "none"),
     Cell(<<W("Sat"), COMMA, SP, D(<<1, 9>>), SP, W("Dec"), SP, D(<<1, 9, 8, 7>>)>>,
          "none")}
\* the subject column: plain text, or text around a link
TitleCells == {Cell("T", "none"), Cell("T", "L")}
CellRows ==
    {<<>>} \cup {<<Cell("C", "none"), d>> : d \in DateCells}
           \cup {<<Cell("C", "none"), d, t>> : d \in DateCells, t \in TitleCells}
TableRows ==
    [has_id : {TRUE}, id : IdAttributes, tds : CellRows]
    \cup [has_id : {FALSE}, id : {<<>>}, tds : CellRows]
Documents == SeqsUpTo(TableRows, MaxRows)

RECURSIVE LStripSeq(_)
LStripSeq(t) == IF t # <<>> /\ Head(t) \in Space THEN LStripSeq(Tail(t)) ELSE t
RECURSIVE RStripSeq(_)
RStripSeq(t) ==
    IF t # <<>> /\ t[Len(t)] \in Space THEN RStripSeq(SubSeq(t, 1, Len(t) - 1)) ELSE t
\* str.strip()
Strip(t) == RStripSeq(LStripSeq(t))

\* variant: the id attribute is read as it stands
RowRecordUnstripped(tr) ==
    LET cable_id == tr.id
    IN IF ~tr.has_id \/ cable_id = <<>> \/ cable_id[1] \notin Digits
       THEN <<>>
       ELSE <<[cable_id |-> cable_id,
               title |-> IF Len(tr.tds) >= 3
                         THEN IF tr.tds[3].link # "none"
                              THEN tr.tds[3].link ELSE tr.tds[3].text
                         ELSE "",
               date |-> IF Len(tr.tds) >= 3
                        THEN normalize_date(tr.tds[2].text, TRUE) ELSE <<>>]>>

\* the body of the loop for one row: the record appended, if any
RowRecord(tr) ==
    LET cable_id == Strip(tr.id)
    IN IF ~tr.has_id \/ cable_id = <<>> \/ cable_id[1] \notin Digits
       THEN <<>>
       ELSE <<[cable_id |-> cable_id,
               title |-> IF Len(tr.tds) >= 3
                         THEN IF tr.tds[3].link # "none"
                              THEN tr.tds[3].link ELSE tr.tds[3].text
                         ELSE "",
               date |-> IF Len(tr.tds) >= 3
                        THEN normalize_date(tr.tds[2].text, TRUE) ELSE <<>>]>>

RECURSIVE ParseRows(_)
\* the loop over soup.select("tr[id]")
ParseRows(trs) ==
    IF trs = <<>> THEN <<>> ELSE RowRecord(Head(trs)) \o ParseRows(Tail(trs))

\* a document is at hand
ParseInput ==
    /\ parse_pc = "input"
    /\ parse_html \in Documents
    /\ parse_results = <<>>

ParseInit == FetchInit /\ SearchInit /\ RetryInit /\ JsIdle /\ DateIdle /\ ExtractIdle
             /\ ScanIdle /\ ParseInput /\ SessionIdle

\* parse_results = _parse_result_rows(parse_html)
Parse ==
    /\ parse_pc = "input"
    /\ parse_results' = ParseRows(parse_html)
    /\ parse_pc' = "done"
    /\ UNCHANGED parse_html
    /\ UNCHANGED <<fvars, svars, rvars, jvars, dvars, evars, kvars, mvars>>

ParseNext == Parse

ParseSpec == ParseInit /\ [][ParseNext]_vars

(* ======================= run_session, main ======================= *)
\* what do_search_and_fetch can return as its list: the records yielded by
\* fetch_all_cables for the list search_cables returned (one for each entry,
\* an id twice where the list holds it twice), less those the exclude and
\* date filters drop; <<>> stands for None
Collected(id) == DateFallback(fetch_cable(id, Page(id)), CableInfo(id))
SearchResults == SeqsUpTo({Collected(id) : id \in Ids}, MaxList)

\* the body of `if result:`: extend all_cables by the records whose id is
\* not in all_cables yet
Extended(cables, result) ==
    LET existing_ids == {cables[k].cable_id : k \in 1..Len(cables)}
        new_cables == SelectSeq(result, LAMBDA c : c.cable_id \notin existing_ids)
    IN cables \o new_cables

\* where the loop goes after a search: the question asked
AskPc(cables) == IF cables = <<>> THEN "ask_retry" ELSE "ask_more"

Left == {"idle", "returned", "done", "interrupted", "raised"}
mainvars == <<fvars, svars, rvars, jvars, dvars, evars, kvars, pvars>>

\* main calls run_session
SessionStart ==
    /\ session_pc \in Left
    /\ sessions < MaxSessions
    /\ sessions' = sessions + 1
    /\ all_cables' = <<>>
    /\ search_num' = 0
    /\ session_pc' = "search"
    /\ UNCHANGED checkpoint_files
    /\ UNCHANGED mainvars

\* do_search_and_fetch returns (None, None) before any fetch: no keyword,
\* cancelled, nothing found or everything excluded by title
SearchNone ==
    /\ session_pc = "search"
    /\ search_num < MaxSearches
    /\ search_num' = search_num + 1
    /\ session_pc' = AskPc(all_cables)
    /\ UNCHANGED <<sessions, all_cables, checkpoint_files>>
    /\ UNCHANGED mainvars

\* do_search_and_fetch runs the fetch loop to its end: the checkpoint file of
\* this search exists, the records that pass the filters are returned
SearchFetched ==
    /\ session_pc = "search"
    /\ search_num < MaxSearches
    /\ search_num' = search_num + 1
    /\ checkpoint_files' = checkpoint_files \cup {search_num + 1}
    /\ \E result \in SearchResults :
        /\ all_cables' = IF result # <<>> THEN Extended(all_cables, result)
                         ELSE all_cables
        /\ session_pc' = AskPc(all_cables')
    /\ UNCHANGED sessions
    /\ UNCHANGED mainvars

\* KeyboardInterrupt or another exception inside do_search_and_fetch: during
\* the search, or during the fetch loop after some record was saved
SearchInterrupted ==
    /\ session_pc = "search"
    /\ search_num < MaxSearches
    /\ search_num' = search_num + 1
    /\ \E saved \in BOOLEAN :
        checkpoint_files' = IF saved THEN checkpoint_files \cup {search_num + 1}
                            ELSE checkpoint_files
    /\ session_pc' = "interrupted"
    /\ UNCHANGED <<sessions, all_cables>>
    /\ UNCHANGED mainvars

\* "Try another search?" yes: continue
AskRetryYes ==
    /\ session_pc = "ask_retry"
    /\ search_num < MaxSearches
    /\ session_pc' = "search"
    /\ UNCHANGED <<sessions, search_num, all_cables, checkpoint_files>>
    /\ UNCHANGED mainvars

\* "Try another search?" no: return
AskRetryNo ==
    /\ session_pc = "ask_retry"
    /\ session_pc' = "returned"
    /\ UNCHANGED <<sessions, search_num, all_cables, checkpoint_files>>
    /\ UNCHANGED mainvars

\* "Add another search to this export?" yes
AskMoreYes ==
    /\ session_pc = "ask_more"
    /\ search_num < MaxSearches
    /\ session_pc' = "search"
    /\ UNCHANGED <<sessions, search_num, all_cables, checkpoint_files>>
    /\ UNCHANGED mainvars

\* "Add another search to this export?" no: break, on to the export
AskMoreNo ==
    /\ session_pc = "ask_more"
    /\ session_pc' = "export"
    /\ UNCHANGED <<sessions, search_num, all_cables, checkpoint_files>>
    /\ UNCHANGED mainvars

\* export_to_excel(all_cables, ...) returns
ExportOk ==
    /\ session_pc = "export"
    /\ session_pc' = "exported"
    /\ UNCHANGED <<sessions, search_num, all_cables, checkpoint_files>>
    /\ UNCHANGED mainvars

\* variant: the checkpoint files are removed whether the export returned or not
ExportRaiseCleansUp ==
    /\ session_pc = "export"
    /\ checkpoint_files' = checkpoint_files \ (1..search_num)
    /\ session_pc' = "raised"
    /\ UNCHANGED <<sessions, search_num, all_cables>>
    /\ UNCHANGED mainvars

\* export_to_excel raises: the exception leaves run_session
ExportRaise ==
    /\ session_pc = "export"
    /\ session_pc' = "raised"
    /\ UNCHANGED <<sessions, search_num, all_cables, checkpoint_files>>
    /\ UNCHANGED mainvars

\* the loop over range(1, search_num + 1): unlink each file that exists
Cleanup ==
    /\ session_pc = "exported"
    /\ checkpoint_files' = checkpoint_files \ (1..search_num)
    /\ session_pc' = "done"
    /\ UNCHANGED <<sessions, search_num, all_cables>>
    /\ UNCHANGED mainvars

\* KeyboardInterrupt at a prompt
PromptInterrupted ==
    /\ session_pc \in {"ask_retry", "ask_more"}
    /\ session_pc' = "interrupted"
    /\ UNCHANGED <<sessions, search_num, all_cables, checkpoint_files>>
    /\ UNCHANGED mainvars

SessionNext ==
    \/ SessionStart
    \/ SearchNone
    \/ SearchFetched
    \/ SearchInterrupted
    \/ AskRetryYes
    \/ AskRetryNo
    \/ AskMoreYes
    \/ AskMoreNo
    \/ ExportOk
    \/ ExportRaise
    \/ Cleanup
    \/ PromptInterrupted

SessionSpec == Init /\ [][SessionNext]_vars

(* ======================= properties ======================= *)
Range(seq) == {seq[k] : k \in 1..Len(seq)}
Count(seq, x) == Cardinality({k \in 1..Len(seq) : seq[k] = x})
ListIds == {cable_list[k].cable_id : k \in 1..Len(cable_list)}
DistinctIds(rs) ==
    \A a, b \in 1..Len(rs) : a # b => rs[a].cable_id # rs[b].cable_id
\* an entry without the _fetch_error key
CompleteEntry(m, id) == id \in DOMAIN m /\ "_fetch_error" \notin DOMAIN m[id]
\* an entry with the _fetch_error key
ErrorEntry(m, id) == id \in DOMAIN m /\ "_fetch_error" \in DOMAIN m[id]
OnDisk == load_checkpoint(file).completed

\* C1: the list search_cables returns holds no two records with the same
\* cable_id, on the paginated path and on the paths that return page 1 only.
C1_ReturnedIdsUnique == spc = "returned" => DistinctIds(ret)

\* C2: for a list of distinct ids and a checkpoint with the complete ids S, a
\* run to completion calls fetch_cable exactly once for each id outside S and
\* never for an id in S, and the persisted checkpoint then has an entry for
\* every id of the list.
C2_ResumeFetchesIncompleteOnly ==
    (fpc = "done" /\ DistinctIds(cable_list)) =>
        LET S == {id \in ListIds : CompleteEntry(loaded, id)}
        IN /\ \A id \in ListIds \ S : Count(fetched, id) = 1
           /\ \A id \in S : Count(fetched, id) = 0
           /\ Len(fetched) = Cardinality(ListIds \ S)
           /\ Loadable(file)
           /\ ListIds \subseteq DOMAIN OnDisk

C2_Witness ==
    /\ fpc = "done"
    /\ DistinctIds(cable_list)
    /\ Len(cable_list) = 2
    /\ CompleteEntry(loaded, cable_list[1].cable_id)
    /\ ~CompleteEntry(loaded, cable_list[2].cable_id)
    /\ fetched = <<cable_list[2].cable_id>>

\* C3: a detail fetch that exhausts its retries yields a record whose
\* _fetch_error is set and non-empty and whose full_text describes the failure;
\* no request failure leaves the generator, and a run that finishes has
\* yielded a tuple for every element of the list.
C3_FailureRecordedLoopGoesOn ==
    /\ \A j \in 1..Len(yielded) :
        yielded[j].how = "failed" =>
            /\ "_fetch_error" \in DOMAIN yielded[j].rec
            /\ yielded[j].rec["_fetch_error"] \in Errs
            /\ yielded[j].rec["_fetch_error"] # ""
            /\ yielded[j].rec.full_text =
                   "[ERROR: Failed to fetch - " \o yielded[j].rec["_fetch_error"] \o "]"
    /\ fpc = "raised" => raised \in {"JSONDecodeError", "OSError"}
    /\ fpc = "done" => Len(yielded) = Len(cable_list)

C3_Witness ==
    /\ fpc = "done"
    /\ Len(yielded) = 2
    /\ yielded[1].how = "failed"
    /\ yielded[2].how = "fetched"

\* C4: a re-run with the same list after a completed run calls fetch_cable for
\* exactly the ids of the list whose checkpoint entry carries a fetch-error,
\* and for no id whose entry is complete.
C4_RerunRetriesOnlyErrors ==
    (rerun /\ fpc = "done") =>
        /\ Range(fetched) \subseteq ListIds
        /\ \A id \in ListIds :
            /\ ErrorEntry(loaded, id) <=> id \in Range(fetched)
            /\ CompleteEntry(loaded, id) <=> id \notin Range(fetched)

C4_Witness ==
    /\ rerun
    /\ fpc = "done"
    /\ \E id \in ListIds : ErrorEntry(loaded, id) /\ id \in Range(fetched)
    /\ \E id \in ListIds : CompleteEntry(loaded, id) /\ id \notin Range(fetched)

\* C5: a continuation response whose length is below the page limit, or whose
\* token is empty, is the last one: no continuation request follows it.
C5_TerminalResponseEndsPagination ==
    \A k \in 1..Len(resps) :
        (resps[k].kind = "data" /\ (resps[k].length < QLIMIT \/ resps[k].token = "")) =>
            /\ k = Len(resps)
            /\ Len(reqs) = k
            /\ spc = "returned"

C5_Witness ==
    /\ Len(resps) = 1
    /\ resps[1].kind = "data" /\ resps[1].length < QLIMIT /\ resps[1].token # ""
    /\ Len(reqs) = 1
    /\ spc = "returned"

\* C6: after a crash at any point once index k was yielded, the checkpoint
\* file is loadable and holds every record yielded at 1..k.
C6_CrashKeepsYieldedRecords ==
    (fpc = "crashed" /\ Len(yielded) >= 1) =>
        /\ file.exists
        /\ file.valid
        /\ \A j \in 1..Len(yielded) :
            /\ yielded[j].rec.cable_id \in DOMAIN file.data.completed
            /\ file.data.completed[yielded[j].rec.cable_id] = yielded[j].rec

\* C7: at each yield of a fetched record the file's completed mapping holds
\* that record and every record yielded earlier in the run.
C7_PersistedBeforeYield ==
    fpc = "yielded" =>
        /\ file.exists
        /\ file.valid
        /\ \A j \in 1..Len(yielded) :
            /\ yielded[j].rec.cable_id \in DOMAIN file.data.completed
            /\ file.data.completed[yielded[j].rec.cable_id] = yielded[j].rec

\* C8: the j-th tuple yielded is (j, len(list), record) with the cable_id of
\* the j-th input element, however the record was obtained; a run that
\* finishes has yielded exactly len(list) tuples.
C8_YieldedInInputOrder ==
    /\ Len(yielded) <= Len(cable_list)
    /\ \A j \in 1..Len(yielded) :
        /\ yielded[j].index = j
        /\ yielded[j].total = Len(cable_list)
        /\ yielded[j].rec.cable_id = cable_list[j].cable_id
    /\ fpc = "done" => Len(yielded) = Len(cable_list)

C8_Witness ==
    /\ fpc = "done"
    /\ Len(yielded) = 2
    /\ yielded[1].how = "checkpoint"
    /\ yielded[2].how = "failed"

\* C9: when the loaded checkpoint has an entry without fetch-error for the
\* current id, the step of the loop yields that stored entry, calls no
\* fetch_cable and leaves the checkpoint file as it is.
C9_CompleteEntrySkipped ==
    [][(fpc = "loop" /\ CompleteEntry(loaded, cable_list[i + 1].cable_id)
        /\ fpc' # "crashed")
       => /\ fpc' = "yielded_skip"
          /\ Len(yielded') = Len(yielded) + 1
          /\ yielded'[Len(yielded')].rec = loaded[cable_list[i + 1].cable_id]
          /\ yielded'[Len(yielded')].index = i + 1
          /\ file' = file
          /\ fetched' = fetched]_vars

C9_Witness ==
    /\ fpc = "yielded_skip"
    /\ CompleteEntry(loaded, cable_list[i + 1].cable_id)
    /\ yielded[Len(yielded)].rec = loaded[cable_list[i + 1].cable_id]
    /\ fetched = <<>>

\* C10: if the page parameters cannot be extracted from the first response, or
\* the extracted token is empty, search_cables returns exactly the rows of
\* page 1, issues no continuation request and raises no error.
C10_DegradesToPageOne ==
    (first.seen /\ (first.pp # "ok" \/ first.tok \in {"none", ""})) =>
        /\ spc = "returned"
        /\ sraised = "none"
        /\ ret = page1
        /\ reqs = <<>>
        /\ resps = <<>>

C10_Witness ==
    /\ first.seen
    /\ first.pp = "ok"
    /\ first.tok = ""
    /\ Len(page1) = 2
    /\ ret = page1

\* the continuation request of a search ended in a failure: the retries of the
\* request were used up, or the last response, read, was no JSON or no object
ContinuationFailed ==
    /\ spc \in {"returned", "raised"}
    /\ first.seen
    /\ \/ attempt = MAX_RETRIES
       \/ /\ resps # <<>>
          /\ resps[Len(resps)].kind \in {"undecodable", "nonobject"}

\* C11: when a continuation request fails for good (transport failure after
\* the retries, undecodable payload or malformed payload), search_cables
\* returns the deduplicated records of the earlier responses and raises nothing.
C11_ContinuationFailureDegrades ==
    ContinuationFailed =>
        /\ spc = "returned"
        /\ sraised = "none"
        /\ ret = Dedup(results)

\* no first document arrived for a search with a keyword
InitialFailed == spc # "idle" /\ ~first.seen /\ sraised # "ValueError"

\* C12 as stated: a transport failure of the initial search request ends in a
\* returned list, never in an error raised to the caller of search_cables.
C12_InitialFailureDegrades ==
    InitialFailed => spc = "returned" /\ sraised = "none"

\* C12 amended: a transport failure of the initial search request is not
\* retried; search_cables raises ConnectionError to its caller, returns no list
\* and sends no continuation request.
C12_InitialFailureRaises ==
    InitialFailed =>
        /\ spc = "raised"
        /\ sraised = "ConnectionError"
        /\ attempt = 0
        /\ ret = <<>>
        /\ reqs = <<>>
        /\ resps = <<>>

C12_Witness ==
    /\ ~first.seen
    /\ spc = "raised"
    /\ sraised = "ConnectionError"

\* C13: one _request_with_retry call makes at most MAX_RETRIES HTTP attempts;
\* it returns the response of its first successful attempt and makes none
\* after it; when all MAX_RETRIES attempts fail it raises the failure of the
\* last one.
C13_AtMostMaxRetriesAttempts ==
    /\ Len(rtries) <= MAX_RETRIES
    /\ \A k \in 1..Len(rtries) : rtries[k].ok => k = Len(rtries)
    /\ rpc = "returned" <=> (rtries # <<>> /\ rtries[Len(rtries)].ok)
    /\ rpc = "returned" => rout = rtries[Len(rtries)].val
    /\ rpc = "raised" <=>
           (Len(rtries) = MAX_RETRIES /\ \A k \in 1..MAX_RETRIES : ~rtries[k].ok)
    /\ rpc = "raised" => rout = rtries[MAX_RETRIES].val

C13_Witness ==
    /\ rpc = "raised"
    /\ Len(rtries) = MAX_RETRIES
    /\ rtries[1].val # rtries[MAX_RETRIES].val

\* C14: when writing the checkpoint fails, the OSError leaves the generator:
\* the record just fetched is not yielded, no later id is processed, and the
\* record is a fetch-error only if its own HTTP retries were used up.
C14_SaveFailurePropagates ==
    (fpc = "raised" /\ raised = "OSError") =>
        /\ i < total
        /\ Len(yielded) = i
        /\ \A k \in 1..Len(yielded) : yielded[k].index <= i
        /\ fetched # <<>>
        /\ fetched[Len(fetched)] = cable_info.cable_id
        /\ Len(fetched) =
               1 + Cardinality({k \in 1..Len(yielded) : yielded[k].how # "checkpoint"})
        /\ completed[cable_info.cable_id] = cable_data
        /\ Has(cable_data, "_fetch_error") <=> attempt = MAX_RETRIES

C14_Witness ==
    /\ fpc = "raised"
    /\ raised = "OSError"
    /\ i = 0
    /\ total = 2
    /\ ~Has(cable_data, "_fetch_error")
    /\ file = NoFile

\* the invocation under way repeats, with the same list and checkpoint path, an
\* invocation that ran to completion without a fetch error
SecondRun == rerun /\ prev_clean

\* C15: a second invocation over the same list, after a run that completed with
\* no fetch error, calls fetch_cable for no id, yields tuple for tuple what the
\* first run yielded, and leaves the checkpoint file as it was.
C15_SecondRunIdempotent ==
    /\ [](SecondRun =>
            /\ fetched = <<>>
            /\ raised = "none"
            /\ Len(yielded) <= Len(prev_yielded)
            /\ Tuples(yielded) = SubSeq(prev_yielded, 1, Len(yielded))
            /\ fpc = "done" => Tuples(yielded) = prev_yielded)
    /\ [][SecondRun => file' = file]_vars

C15_Witness ==
    /\ SecondRun
    /\ fpc = "done"
    /\ Len(yielded) = 2
    /\ yielded[1].rec.cable_id # yielded[2].rec.cable_id
    /\ file.valid

InRun == fpc # "idle"

\* C19 as stated: within a run the keys of completed, in memory and in the
\* file, are ids of the run's input list, whatever the file held before.
C19_CompletedKeysInList ==
    (InRun /\ raised # "JSONDecodeError") =>
        /\ DOMAIN completed \subseteq ListIds
        /\ DOMAIN OnDisk \subseteq ListIds

\* C19 amended: within a run the keys of completed, in memory and in the file,
\* are ids of the run's input list or keys the file held when the run loaded
\* it; every key loaded is kept.
C19_CompletedKeysInListOrLoaded ==
    (InRun /\ raised # "JSONDecodeError") =>
        /\ DOMAIN completed \subseteq (ListIds \cup DOMAIN loaded)
        /\ DOMAIN OnDisk \subseteq (ListIds \cup DOMAIN loaded)
        /\ DOMAIN loaded \subseteq DOMAIN completed

C19_Witness ==
    /\ fpc = "yielded"
    /\ file = WrittenFile(checkpoint)
    /\ \E id \in DOMAIN OnDisk : id \notin ListIds /\ id \in DOMAIN loaded
    /\ \E id \in DOMAIN OnDisk : id \in ListIds /\ id \notin DOMAIN loaded

C17_LiteralRoundTrips ==
    (jpc = "done" /\ js_obj # <<>>) =>
        /\ page_params.ok
        /\ page_params.obj = js_orig

\* a date in the form YYYY-MM-DD: four digits, a dash, two digits, a dash,
\* two digits
IsYMD(r) ==
    /\ Len(r) = 5
    /\ r[1].k = "d" /\ Len(r[1].ds) = 4
    /\ r[2] = DASH
    /\ r[3].k = "d" /\ Len(r[3].ds) = 2
    /\ r[4] = DASH
    /\ r[5].k = "d" /\ Len(r[5].ds) = 2

\* the result is that of the first of the three formats that succeeds
FirstFormatWins ==
    LET a == DetailFormat(raw_date)
        b == ListingFormat(raw_date)
    IN /\ a.ok => \E padded \in BOOLEAN : norm_date = strftime(a, padded)
       /\ (~a.ok /\ b.ok) => \E padded \in BOOLEAN : norm_date = strftime(b, padded)
       /\ (~a.ok /\ ~b.ok /\ IsoAt(raw_date) # {}) => norm_date = IsoSubstring(raw_date)
       /\ (~a.ok /\ ~b.ok /\ IsoAt(raw_date) = {}) => norm_date = <<>>

\* C18: _normalize_date gives the result of the first format that succeeds
\* (detail page, listing, embedded YYYY-MM-DD), a format whose conversion to a
\* calendar date fails is passed over, and for every input the result is the
\* empty string or a YYYY-MM-DD string.
C18_ResultIsEmptyOrYMD ==
    dpc = "done" =>
        /\ FirstFormatWins
        /\ norm_date = <<>> \/ IsYMD(norm_date)

\* the ids of the run's input list, in order
ListIdSeq == [k \in 1..Len(cable_list) |-> cable_list[k].cable_id]

\* C21 as stated: at the end of every run the cable_ids of the checkpoint
\* file are the ids of the run's input list, in order, also when every record
\* was complete already and when the list is empty.
C21_PersistedIdsAreListIds ==
    fpc = "done" => (file.exists /\ file.valid /\ file.data.cable_ids = ListIdSeq)

\* C21 amended: at the end of a run that saved a record the cable_ids of the
\* checkpoint file are the ids of the run's input list, in order; a run that
\* saves nothing (every record complete already, or an empty list) never
\* writes the file.
C21_PersistedIdsAfterSave ==
    /\ []((fpc = "done" /\ fetched # <<>>) =>
            (file.exists /\ file.valid /\ file.data.cable_ids = ListIdSeq))
    /\ [][(fpc # "idle" /\ fetched' = <<>>) => file' = file]_vars

C21_Witness ==
    /\ fpc = "done"
    /\ fetched = <<>>
    /\ total = 1
    /\ file.valid
    /\ file.data.cable_ids # ListIdSeq

\* the date the detail result of the k-th tuple had: that of the page when
\* the fetch succeeded, none when it failed
DetailDate(k) ==
    IF yielded[k].how = "fetched" THEN Page(cable_list[k].cable_id).date ELSE ""

\* C22: a fetched record, successful or errored, whose detail result has no
\* date carries the date of its result record when that one is not empty, in
\* the tuple yielded and in the file; a date found on the detail page stays.
C22_DateFallback ==
    /\ \A k \in 1..Len(yielded) :
        yielded[k].how # "checkpoint" =>
            /\ DetailDate(k) # "" => Get(yielded[k].rec, "date") = DetailDate(k)
            /\ (DetailDate(k) = "" /\ cable_list[k].date # "") =>
                   Get(yielded[k].rec, "date") = cable_list[k].date
            /\ (DetailDate(k) = "" /\ cable_list[k].date = "") =>
                   Get(yielded[k].rec, "date") = ""
    /\ fpc = "yielded" =>
        /\ file.valid
        /\ OnDisk[cable_info.cable_id] = yielded[Len(yielded)].rec

C22_Witness ==
    /\ fpc = "yielded"
    /\ Len(yielded) = 2
    /\ yielded[1].how = "failed"
    /\ Get(yielded[1].rec, "date") = "D"
    /\ yielded[2].how = "fetched"
    /\ cable_list[2].date = "D"
    /\ Get(yielded[2].rec, "date") = "P"


\* the rate-limit sleeps on the timeline that followed loop index k
SleepsAfter(k) == {n \in 1..Len(timeline) : timeline[n] = [ev |-> "sleep", at |-> k]}
\* C23 (as stated): after every finished iteration of the loop but the last
\* one fetch_all_cables has slept the delay, and it has not slept after the
\* last record.
C23_SleepsAfterEveryIterationButLast ==
    \A k \in 0..(i - 1) : (SleepsAfter(k) # {}) <=> (k < total - 1)
\* C23 (amended): fetch_all_cables sleeps the delay exactly once after every
\* iteration that called fetch_cable and is not the last of the list, right
\* after that iteration's yield; it sleeps neither after an iteration that
\* yielded a stored entry nor after the last record.
C23_SleepsAfterFetchedIterationButLast ==
    /\ \A k \in 0..(i - 1) :
        /\ k < Len(yielded)
        /\ Cardinality(SleepsAfter(k)) =
             IF yielded[k + 1].how # "checkpoint" /\ k < total - 1 THEN 1 ELSE 0
    /\ \A n \in 1..Len(timeline) :
        timeline[n].ev = "sleep" =>
            /\ n > 1
            /\ timeline[n - 1] = [ev |-> "fetch", at |-> timeline[n].at]
            /\ timeline[n].at < i
\* a run over two records that fetched the first, slept, and yielded the
\* second from the checkpoint without sleeping
C23_Witness ==
    /\ fpc = "done"
    /\ total = 2
    /\ yielded[1].how = "fetched"
    /\ yielded[2].how = "checkpoint"
    /\ timeline = <<[ev |-> "fetch", at |-> 0], [ev |-> "sleep", at |-> 0]>>

C25_OneBackoffBetweenAttempts ==
    /\ [](/\ Len(rsleeps) = IF rpc \in {"returned", "raised"}
                            THEN Len(rtries) - 1
                            ELSE Len(rtries)
          /\ \A k \in 1..Len(rsleeps) : rsleeps[k] = IF k = 1 THEN 5 ELSE 10
          /\ Len(rsleeps) <= 2)
    /\ [][rtries' # rtries =>
            /\ Len(rtries') = Len(rtries) + 1
            /\ IF rtries'[Len(rtries')].ok \/ Len(rtries') = MAX_RETRIES
               THEN rsleeps' = rsleeps /\ rpc' \in {"returned", "raised"}
               ELSE /\ rsleeps' = Append(rsleeps, BACKOFF_SECONDS[Len(rtries')])
                    /\ rpc' = "attempt"]_vars
C25_Witness ==
    /\ rpc = "raised"
    /\ Len(rtries) = MAX_RETRIES
    /\ rsleeps = <<5, 10>>

\* C26 (as stated): after a continuation payload another continuation request
\* is sent if and only if the payload's length equals QLIMIT and its token is
\* not empty.
C26_ContinuesIffLengthEqualsLimit ==
    \A n \in 1..Len(resps) :
        resps[n].kind = "data" =>
            (Len(reqs) > n <=> (resps[n].length = QLIMIT /\ resps[n].token # ""))
\* C26 (amended): after a continuation payload another continuation request
\* is sent if and only if the payload's length is not less than QLIMIT and
\* its token is not empty; otherwise the search returns.
C26_ContinuesIffLengthNotBelowLimit ==
    \A n \in 1..Len(resps) :
        resps[n].kind = "data" =>
            /\ Len(reqs) > n <=> (resps[n].length >= QLIMIT /\ resps[n].token # "")
            /\ Len(reqs) = n => (n = Len(resps) /\ spc = "returned")
            /\ Len(reqs) <= Len(resps) + 1
C26_Witness ==
    /\ Len(resps) = 1
    /\ resps[1].kind = "data"
    /\ resps[1].length > QLIMIT
    /\ Len(reqs) = 2

\* the rows parsed from the n-th continuation response
PageRows(n) == parse_result_rows(resps[n].content)
RECURSIVE Accumulated(_)
\* the rows of page 1 followed by those of the first n continuation responses
Accumulated(n) == IF n = 0 THEN page1 ELSE Accumulated(n - 1) \o PageRows(n)

\* C27: a continuation payload with content and an empty token ends the
\* pagination as a normal last page: its rows are appended to the accumulated
\* results, no further request is sent, and the search returns without error
\* a list that holds every id of that page.
C27_LastPageRowsKept ==
    \A n \in 1..Len(resps) :
        (resps[n].kind = "data" /\ resps[n].content # <<>> /\ resps[n].token = "") =>
            /\ n = Len(resps)
            /\ Len(reqs) = n
            /\ spc = "returned"
            /\ sraised = "none"
            /\ results = Accumulated(n)
            /\ \A k \in 1..Len(PageRows(n)) :
                \E m \in 1..Len(ret) : ret[m].cable_id = PageRows(n)[k].cable_id
C27_Witness ==
    /\ Len(resps) = 1
    /\ resps[1].kind = "data"
    /\ resps[1].length = QLIMIT
    /\ resps[1].token = ""
    /\ PageRows(1) # <<>>
    /\ \A k \in 1..Len(page1) : page1[k].cable_id # PageRows(1)[1].cable_id
    /\ ret = page1 \o PageRows(1)

\* C28: the first continuation request carries the token of the first page
\* and the n-th the token of the (n-1)-th continuation response; every
\* request carries the parameters extracted from the first page, with the
\* defaults for the missing ones, the fixed sort and the fixed limit.
C28_RequestsCarryPrecedingToken ==
    \A n \in 1..Len(reqs) :
        /\ reqs[n].token = IF n = 1 THEN first.tok ELSE resps[n - 1].token
        /\ reqs[n].token # ""
        /\ reqs[n].project = IF Has(first.params, "project")
                             THEN first.params.project ELSE "all_cables"
        /\ reqs[n].subp = IF Has(first.params, "subp")
                          THEN first.params.subp ELSE "cg"
        /\ reqs[n].qcanonical = Get(first.params, "qcanonical")
        /\ reqs[n].qcanonical_seal = Get(first.params, "qcanonical_seal")
        /\ reqs[n].qsort = "tasc"
        /\ reqs[n].qlimit = QLIMIT
        /\ Has(reqs[n], "s") <=> Get(first.params, "s") # ""
        /\ Has(reqs[n], "s") => reqs[n].s = first.params.s
        /\ \A key \in DOMAIN reqs[n] \ {"token"} :
             key \in DOMAIN reqs[1] /\ reqs[n][key] = reqs[1][key]
C28_Witness ==
    /\ Len(reqs) = 2
    /\ reqs[1].token = TokenNames[1]
    /\ reqs[2].token = TokenNames[2]
    /\ reqs[2].qcanonical = "q1"
    /\ reqs[2].s = "s1"

\* the positions of rs that hold the first occurrence of their cable_id
FirstOccurrences(rs) ==
    {k \in 1..Len(rs) : \A j \in 1..(k - 1) : rs[j].cable_id # rs[k].cable_id}
\* the m-th smallest element of a set of positions
Nth(ps, m) == CHOOSE k \in ps : Cardinality({j \in ps : j < k}) = m - 1
\* C29: a search that sent a continuation request and returned gives the rows
\* of page 1 followed by those of the continuation pages in request order,
\* each cable_id kept at its first occurrence only, with that row's title
\* and date, in the same relative order.
C29_ReturnsFirstOccurrencesInOrder ==
    (spc = "returned" /\ reqs # <<>>) =>
        LET all == Accumulated(Len(resps))
            keep == FirstOccurrences(all)
        IN /\ Len(ret) = Cardinality(keep)
           /\ \A m \in 1..Len(ret) : ret[m] = all[Nth(keep, m)]
C29_Witness ==
    /\ spc = "returned"
    /\ Len(resps) = 1
    /\ page1 = <<ResultRecord(1, "")>>
    /\ PageRows(1) = <<ResultRecord(1, "D"), ResultRecord(2, "")>>
    /\ ret = <<ResultRecord(1, ""), ResultRecord(2, "")>>

\* the page_parameters assignment cannot be found in the page
AssignmentAbsent == ~page_parameters_match(page_html).found
\* the literal found does not convert to text that json.loads accepts
LiteralInvalid ==
    /\ page_parameters_match(page_html).found
    /\ ~json_loads(js_obj_to_json(page_parameters_match(page_html).group)).ok
\* C30 (as stated): _extract_page_parameters raises its ValueError whenever
\* the page_parameters assignment is absent, the converted literal is not
\* valid JSON, or the result_token assignment is absent.
C30_RaisesWhenAnyPartMissing ==
    xpc = "done" =>
        ((AssignmentAbsent \/ LiteralInvalid \/ page_html.tok = "none") =>
            (~extracted.ok /\ extracted.error # "none"))
\* C30 (amended): _extract_page_parameters raises its ValueError exactly when
\* the page_parameters assignment is absent or the converted literal is not
\* valid JSON; a page without a result_token assignment gives the decoded
\* parameters with the empty token.
C30_RaisesWhenParametersMissing ==
    xpc = "done" =>
        /\ ~extracted.ok <=> (AssignmentAbsent \/ LiteralInvalid)
        /\ ~extracted.ok <=> extracted.error # "none"
        /\ extracted.ok =>
            /\ extracted.result_token =
                 IF page_html.tok = "none" THEN "" ELSE page_html.tok
            /\ extracted.page_params =
                 json_loads(js_obj_to_json(page_parameters_match(page_html).group)).obj
C30_Witness ==
    /\ xpc = "done"
    /\ page_html.tok = "none"
    /\ extracted.ok
    /\ extracted.result_token = ""
    /\ extracted.page_params # EmptyMap

\* the characters that end a bare token
Delimiters == WS \cup Structural \cup QuoteMarks
\* the text the k-th iteration took
Taken(k) == SubSeq(scan_s, scan_regions[k].from + 1,
                   Min(scan_regions[k].to, Len(scan_s)))
\* C31: a bare token, a maximal run of characters that are no whitespace, no
\* structural character and no quote mark, comes out wrapped in double quotes
\* if and only if the next character after it that is no whitespace is a
\* colon, and comes out as it is otherwise.
C31_BareTokenQuotedIffColonFollows ==
    \A k \in 1..Len(scan_regions) :
        scan_regions[k].kind = "bare" =>
            LET word == Taken(k)
                next == SkipWs(scan_s, scan_regions[k].to + 1)
            IN /\ word # <<>>
               /\ \A c \in 1..Len(word) : word[c] \notin Delimiters
               /\ next <= Len(scan_s) => scan_s[scan_regions[k].to + 1] \in Delimiters
               /\ scan_regions[k].out =
                    IF next <= Len(scan_s) /\ scan_s[next] = ":"
                    THEN <<"\"">> \o word \o <<"\"">>
                    ELSE word
\* the same for the texts that hold none of the further whitespace
C31_HoldsWithoutFurtherWhitespace ==
    (\A c \in 1..Len(scan_s) : scan_s[c] \notin Space \ WS) =>
        C31_BareTokenQuotedIffColonFollows

RECURSIVE PiecesFrom(_)
\* the pieces of result from the k-th on, with the comma pieces that stand
\* right before a closing-brace piece left out
PiecesFrom(k) ==
    IF k > Len(scan_regions)
    THEN <<>>
    ELSE IF /\ scan_regions[k].kind = "pass"
            /\ scan_regions[k].out = <<",">>
            /\ k < Len(scan_regions)
            /\ scan_regions[k + 1].kind = "pass"
            /\ scan_regions[k + 1].out = <<"}">>
         THEN PiecesFrom(k + 1)
         ELSE scan_regions[k].out \o PiecesFrom(k + 1)
RegionsOf(x) == {k \in 1..Len(scan_regions) :
                    scan_regions[k].from <= x /\ x < scan_regions[k].to}
\* C38: the scan ends on every text: each iteration moves i forward by at
\* least one character, so there are at most len(s) iterations, an iteration
\* or the return is possible as long as the call has not returned, and the
\* loop is left with i at or past the end. The iterations take consecutive
\* stretches of the text, each character lies in exactly one of them, and a
\* stretch is a pass, a string or a bare word by its first character.
C38_ScanAdvancesAndEnds ==
    /\ scan_i = IF scan_regions = <<>> THEN 0
                ELSE scan_regions[Len(scan_regions)].to
    /\ \A k \in 1..Len(scan_regions) :
        /\ scan_regions[k].from = IF k = 1 THEN 0 ELSE scan_regions[k - 1].to
        /\ scan_regions[k].to >= scan_regions[k].from + 1
        /\ scan_regions[k].from < Len(scan_s)
        /\ scan_regions[k].kind =
             IF scan_s[scan_regions[k].from + 1] \in WS \cup Structural
             THEN "pass"
             ELSE IF scan_s[scan_regions[k].from + 1] \in QuoteMarks
             THEN "string" ELSE "bare"
    /\ Len(scan_regions) <= Len(scan_s)
    /\ \A x \in 0..(scan_i - 1) :
        x < Len(scan_s) => \E k \in RegionsOf(x) : RegionsOf(x) = {k}
    /\ scan_pc = "scan" => ENABLED ScanNext
    /\ scan_pc = "done" => scan_i >= Len(scan_s)
C38_Witness ==
    /\ scan_pc = "done"
    /\ scan_s = <<"'", "a", "\\">>
    /\ scan_i = Len(scan_s) + 2
    /\ scan_json = <<"\"", "a", "\\", "\"">>

\* the rows of the document whose id attribute is not empty and begins with
\* a digit
DigitLed == {k \in 1..Len(parse_html) :
                /\ parse_html[k].has_id
                /\ parse_html[k].id # <<>>
                /\ parse_html[k].id[1] \in Digits}
\* the same with the attribute stripped of the whitespace around it
DigitLedStripped == {k \in 1..Len(parse_html) :
                        /\ parse_html[k].has_id
                        /\ Strip(parse_html[k].id) # <<>>
                        /\ Strip(parse_html[k].id)[1] \in Digits}
\* the list returned holds one record for each row of the set, in document
\* order; a row with fewer than three cells gives empty title and date
OneRecordPerRow(rows) ==
    /\ Len(parse_results) = Cardinality(rows)
    /\ \A m \in 1..Len(parse_results) :
        LET tr == parse_html[Nth(rows, m)]
            rec == parse_results[m]
        IN /\ rec.cable_id = Strip(tr.id)
           /\ Len(tr.tds) < 3 => (rec.title = "" /\ rec.date = <<>>)
           /\ Len(tr.tds) >= 3 =>
                /\ rec.title = IF tr.tds[3].link = "none"
                               THEN tr.tds[3].text ELSE tr.tds[3].link
                /\ rec.date = IF tr.tds[2].text = <<>> THEN <<>>
                              ELSE <<D(<<1, 9, 8, 7>>), DASH, D(<<1, 2>>), DASH,
                                     D(<<1, 9>>)>>
\* C33 (as stated): _parse_result_rows returns, in document order, one record
\* for each row whose id attribute is not empty and begins with a digit, and
\* none for any other row; a recognised row with fewer than three cells gives
\* a record with empty title and date.
C33_OneRecordPerDigitLedRow ==
    parse_pc = "done" => OneRecordPerRow(DigitLed)
\* C33 (amended): the same, the id attribute being stripped of the
\* whitespace around it before it is tested and stored.
C33_OneRecordPerStrippedDigitLedRow ==
    parse_pc = "done" => OneRecordPerRow(DigitLedStripped)
C33_Witness ==
    /\ parse_pc = "done"
    /\ Len(parse_html) = 2
    /\ parse_html[1].id = <<"x", "1">>
    /\ parse_html[2].id = <<" ", "2">>
    /\ Len(parse_html[2].tds) = 2
    /\ parse_html[2].tds[2].text # <<>>
    /\ parse_results = <<[cable_id |-> <<"2">>, title |-> "", date |-> <<>>]>>

\* C34: search_cables called with an empty keyword raises ValueError before
\* any network request is issued: the call ends with that exception, no
\* _curl_fetch call and no continuation request made, nothing returned.
C34_EmptyKeywordRaisesBeforeAnyRequest ==
    keyword = "" =>
        /\ spc = "raised"
        /\ sraised = "ValueError"
        /\ curl_calls = 0
        /\ ~first.seen
        /\ reqs = <<>>
        /\ resps = <<>>
        /\ ret = <<>>
C34_Witness ==
    /\ keyword = ""
    /\ spc = "raised"
    /\ sraised = "ValueError"
    /\ curl_calls = 0

\* the record at hand at the save step comes from a fetch that succeeded,
\* and the mapping holds a failed entry for its id
RefetchedAfterError ==
    /\ fpc = "save"
    /\ attempt # MAX_RETRIES
    /\ cable_info.cable_id \in DOMAIN completed
    /\ Has(completed[cable_info.cable_id], "_fetch_error")
\* C36: when a re-run fetches successfully an id whose checkpoint entry
\* carried a fetch error, the step that stores the record replaces that entry
\* by the new record, which has no _fetch_error field, and leaves the entry
\* of every other id of the completed mapping as it was.
C36_RefetchOverwritesOnlyItsEntry ==
    [][(RefetchedAfterError /\ fpc' \in {"dump", "raised"}) =>
          /\ ~Has(cable_data, "_fetch_error")
          /\ DOMAIN checkpoint'.completed = DOMAIN completed
          /\ checkpoint'.completed[cable_info.cable_id] = cable_data
          /\ \A id \in DOMAIN completed \ {cable_info.cable_id} :
                checkpoint'.completed[id] = completed[id]]_vars
C36_Witness ==
    /\ fpc = "yielded"
    /\ runs = 2
    /\ attempt # MAX_RETRIES
    /\ cable_info.cable_id \in DOMAIN loaded
    /\ Has(loaded[cable_info.cable_id], "_fetch_error")
    /\ completed[cable_info.cable_id] = cable_data
    /\ ~Has(cable_data, "_fetch_error")
    /\ file = WrittenFile(checkpoint)
    /\ \E id \in DOMAIN loaded \ {cable_info.cable_id} : completed[id] = loaded[id]

\* C35: run_session deletes checkpoint files only after export_to_excel has
\* returned: a step that removes a file is the clean-up that follows the
\* returned export and removes checkpoint_1 .. checkpoint_N, and a step in
\* which the session is interrupted or the export raises removes none.
C35_CheckpointsDeletedOnlyAfterExport ==
    [][/\ (checkpoint_files \ checkpoint_files' # {}) =>
            /\ session_pc = "exported"
            /\ checkpoint_files' = checkpoint_files \ (1..search_num)
       /\ session_pc' \in {"interrupted", "raised"} =>
            checkpoint_files \subseteq checkpoint_files']_vars
C35_Witness ==
    /\ session_pc = "raised"
    /\ sessions = 2
    /\ search_num = 2
    /\ checkpoint_files = {1, 2}
\* C37: after any number of searches in one session, the list run_session
\* passes to export_to_excel holds no two cables with the same cable_id.
C37_ExportedIdsUnique ==
    session_pc \in {"export", "exported", "raised", "done"} =>
        \A a, b \in 1..Len(all_cables) :
            all_cables[a].cable_id = all_cables[b].cable_id => a = b

====
